---- MODULE Spec2Model ----
(***************************************************************************)
(* Smart Diary: the todo-suggestion normaliser of the renderer (App.tsx),  *)
(* the conversation/task stores it writes through, and the main-process    *)
(* filter of ai:detectTodos.                                               *)
(*                                                                         *)
(* A JavaScript string is a sequence of characters.  The characters that   *)
(* the code treats specially are " " (removed by trim), "|" (the key       *)
(* delimiter) and upper-case letters (changed by toLowerCase).  Every      *)
(* other element of a sequence stands for a run of ordinary characters.    *)
(***************************************************************************)
EXTENDS Integers, Sequences, FiniteSets, TLC

(***************************************************************************)
(* Strings                                                                 *)
(***************************************************************************)
\* the JavaScript value undefined / null of an optional string field
undefined == <<"undefined">>

\* the due-date sentinel, the two-character string U+672A U+77E5
Sentinel == <<"unknown-sentinel">>

RECURSIVE TrimStart(_)
TrimStart(s) ==
  IF s = <<>> THEN <<>>
  ELSE IF Head(s) = " " THEN TrimStart(Tail(s)) ELSE s

RECURSIVE TrimEnd(_)
TrimEnd(s) ==
  IF s = <<>> THEN <<>>
  ELSE IF s[Len(s)] = " " THEN TrimEnd(SubSeq(s, 1, Len(s) - 1)) ELSE s

\* String.prototype.trim
Trim(s) == TrimEnd(TrimStart(s))

LowerChar(c) == IF c = "A" THEN "a" ELSE IF c = "B" THEN "b" ELSE c

\* String.prototype.toLowerCase
ToLowerCase(s) == [i \in 1..Len(s) |-> LowerChar(s[i])]

\* key.split("|")[0]
RECURSIVE SplitFirst(_)
SplitFirst(s) ==
  IF s = <<>> THEN <<>>
  ELSE IF Head(s) = "|" THEN <<>> ELSE <<Head(s)>> \o SplitFirst(Tail(s))

\* value ?? ""
OrEmpty(v) == IF v = undefined THEN <<>> ELSE v

\* value || undefined
OrUndefined(v) == IF v = <<>> THEN undefined ELSE v

(***************************************************************************)
(* Normalisers and keys (renderer)                                         *)
(***************************************************************************)
Priorities == {<<"low">>, <<"medium">>, <<"high">>, <<"urgent">>}

\* normalizeTodoDueDate that does not know the sentinel
normalizeTodoDueDateKeepsSentinel(value) ==
  IF value = undefined \/ value = <<>> THEN <<>> ELSE Trim(value)

normalizeTodoDueDate(value) ==
  IF value = undefined \/ value = <<>> THEN <<>>
  ELSE LET trimmed == Trim(value)
       IN IF trimmed = <<>> \/ trimmed = Sentinel THEN <<>> ELSE trimmed

\* normalizeTodoPriority that does not accept urgent
normalizeTodoPriorityNoUrgent(value) ==
  IF value \in (Priorities \ {<<"urgent">>}) THEN value ELSE <<"medium">>

normalizeTodoPriority(value) ==
  IF value \in Priorities THEN value ELSE <<"medium">>

buildTodoKey(title, dueDate, priority) ==
  Trim(title) \o <<"|">> \o dueDate \o <<"|">> \o priority

buildTodoTitleKey(title) == ToLowerCase(Trim(title))

extractTitleKeyFromTodoKey(key) == buildTodoTitleKey(SplitFirst(key))

\* buildTodoKeyFromTodo that takes the due date as it is written
buildTodoKeyFromTodoRawDueDate(todo) ==
  buildTodoKey(Trim(OrEmpty(todo.title)),
               OrEmpty(todo.dueDate),
               normalizeTodoPriority(todo.priority))

buildTodoKeyFromTodo(todo) ==
  buildTodoKey(Trim(OrEmpty(todo.title)),
               normalizeTodoDueDate(todo.dueDate),
               normalizeTodoPriority(todo.priority))

buildTodoTitleKeyFromTodo(todo) == buildTodoTitleKey(OrEmpty(todo.title))

\* the value null returned for a suggestion without a title
NullTodo ==
  [title |-> undefined, dueDate |-> undefined,
   priority |-> undefined, notes |-> undefined]

normalizeTodoSuggestion(todo) ==
  LET title == Trim(OrEmpty(todo.title))
  IN IF title = <<>> THEN NullTodo
     ELSE [title    |-> title,
           dueDate  |-> OrUndefined(normalizeTodoDueDate(todo.dueDate)),
           priority |-> normalizeTodoPriority(todo.priority),
           notes    |-> OrUndefined(Trim(OrEmpty(todo.notes)))]

\* a task as the renderer holds it: deadline is a string or null
buildTodoKeyFromTask(task) ==
  buildTodoKey(Trim(OrEmpty(task.title)),
               normalizeTodoDueDate(OrEmpty(task.deadline)),
               normalizeTodoPriority(task.priority))

buildTodoTitleKeyFromTask(task) == buildTodoTitleKey(OrEmpty(task.title))

\* the set of a sequence's elements
Range(s) == {s[i] : i \in 1..Len(s)}

(***************************************************************************)
(* ExtractedInfo: only todos and dismissedTodos are modelled; events,      *)
(* people and locations are copied through by every handler (...info).     *)
(* dismissedTodos is an array the code always rebuilds from a Set.         *)
(***************************************************************************)
normalizeExtractedInfo(info) ==
  [todos |-> info.todos, dismissedTodos |-> info.dismissedTodos]

EmptyInfo == [todos |-> <<>>, dismissedTodos |-> {}]

\* existingTaskKeys / existingTaskTitleKeys of App (useMemo over the store's tasks)
existingTaskKeys(taskList) ==
  {buildTodoKeyFromTask(taskList[i]) : i \in 1..Len(taskList)}

existingTaskTitleKeys(taskList) ==
  {buildTodoTitleKeyFromTask(taskList[i]) : i \in 1..Len(taskList)}

(***************************************************************************)
(* mergeDetectedTodos                                                      *)
(***************************************************************************)
\* MergeRejects without the check of the title keys already accepted
MergeRejectsNoTitleDedupe(key, titleKey, dismissed, dismissedTitleKeys, taskKeys, taskTitleKeys, acc) ==
  \/ key \in dismissed
  \/ titleKey \in dismissedTitleKeys
  \/ key \in taskKeys
  \/ titleKey \in taskTitleKeys
  \/ key \in acc.existingKeys

\* the guard shared by both forEach loops of mergeDetectedTodos
MergeRejects(key, titleKey, dismissed, dismissedTitleKeys, taskKeys, taskTitleKeys, acc) ==
  \/ key \in dismissed
  \/ titleKey \in dismissedTitleKeys
  \/ key \in taskKeys
  \/ titleKey \in taskTitleKeys
  \/ key \in acc.existingKeys
  \/ titleKey \in acc.existingTitleKeys

\* one forEach loop: acc = [existingKeys, existingTitleKeys, nextTodos, added]
RECURSIVE MergeLoop(_, _, _, _, _, _, _)
MergeLoop(list, acc, dismissed, dismissedTitleKeys, taskKeys, taskTitleKeys, countAdded) ==
  IF list = <<>> THEN acc
  ELSE
    LET normalized == normalizeTodoSuggestion(Head(list))
        key        == buildTodoKeyFromTodo(normalized)
        titleKey   == buildTodoTitleKeyFromTodo(normalized)
        skip       == \/ normalized = NullTodo
                      \/ Trim(key) = <<>>
                      \/ MergeRejects(key, titleKey, dismissed, dismissedTitleKeys,
                                      taskKeys, taskTitleKeys, acc)
        next       == IF skip THEN acc
                      ELSE [existingKeys      |-> acc.existingKeys \cup {key},
                            existingTitleKeys |-> acc.existingTitleKeys \cup {titleKey},
                            nextTodos         |-> Append(acc.nextTodos, normalized),
                            added             |-> acc.added + (IF countAdded THEN 1 ELSE 0)]
    IN MergeLoop(Tail(list), next, dismissed, dismissedTitleKeys,
                 taskKeys, taskTitleKeys, countAdded)

\* mergeDetectedTodos that stores an empty pending list when nothing was detected
mergeDetectedTodosClearsOnNull(detected, currentInfo, taskKeys, taskTitleKeys) ==
  [write |-> TRUE,
   info  |-> [todos |-> <<>>, dismissedTodos |-> currentInfo.dismissedTodos]]

\* mergeDetectedTodos that goes through the detected list before the pending list
mergeDetectedTodosIncomingFirst(detected, currentInfo, taskKeys, taskTitleKeys) ==
  IF ~detected.ok \/ Len(detected.todos) = 0
  THEN [write |-> FALSE, info |-> currentInfo]
  ELSE
    LET dismissed          == currentInfo.dismissedTodos \cup detected.dismissedTodos
        dismissedTitleKeys == {extractTitleKeyFromTodoKey(k) : k \in dismissed}
        start == [existingKeys |-> {}, existingTitleKeys |-> {},
                  nextTodos |-> <<>>, added |-> 0]
        new   == MergeLoop(detected.todos, start, dismissed, dismissedTitleKeys,
                           taskKeys, taskTitleKeys, TRUE)
        done  == MergeLoop(currentInfo.todos, new, dismissed, dismissedTitleKeys,
                           taskKeys, taskTitleKeys, FALSE)
    IN IF done.added = 0 /\ Len(done.nextTodos) = Len(currentInfo.todos)
       THEN [write |-> FALSE, info |-> currentInfo]
       ELSE [write |-> TRUE,
             info  |-> [todos |-> done.nextTodos, dismissedTodos |-> dismissed]]

\* mergeDetectedTodos that takes the detected list for the whole pending list
mergeDetectedTodosReplacing(detected, currentInfo, taskKeys, taskTitleKeys) ==
  IF ~detected.ok
  THEN [write |-> FALSE, info |-> currentInfo]
  ELSE
    LET dismissed          == currentInfo.dismissedTodos \cup detected.dismissedTodos
        dismissedTitleKeys == {extractTitleKeyFromTodoKey(k) : k \in dismissed}
        start == [existingKeys |-> {}, existingTitleKeys |-> {},
                  nextTodos |-> <<>>, added |-> 0]
        done  == MergeLoop(detected.todos, start, dismissed, dismissedTitleKeys,
                           taskKeys, taskTitleKeys, TRUE)
    IN [write |-> TRUE,
        info  |-> [todos |-> done.nextTodos, dismissedTodos |-> dismissed]]

\* detected: [ok, todos, dismissedTodos]; ok = FALSE is the value null.
\* The result says whether updateConversationExtractedInfo is called and with what.
mergeDetectedTodos(detected, currentInfo, taskKeys, taskTitleKeys) ==
  IF ~detected.ok \/ Len(detected.todos) = 0
  THEN [write |-> FALSE, info |-> currentInfo]
  ELSE
    LET dismissed          == currentInfo.dismissedTodos \cup detected.dismissedTodos
        dismissedTitleKeys == {extractTitleKeyFromTodoKey(k) : k \in dismissed}
        start == [existingKeys |-> {}, existingTitleKeys |-> {},
                  nextTodos |-> <<>>, added |-> 0]
        kept  == MergeLoop(currentInfo.todos, start, dismissed, dismissedTitleKeys,
                           taskKeys, taskTitleKeys, FALSE)
        done  == MergeLoop(detected.todos, kept, dismissed, dismissedTitleKeys,
                           taskKeys, taskTitleKeys, TRUE)
    IN IF done.added = 0 /\ Len(done.nextTodos) = Len(currentInfo.todos)
       THEN [write |-> FALSE, info |-> currentInfo]
       ELSE [write |-> TRUE,
             info  |-> [todos |-> done.nextTodos, dismissedTodos |-> dismissed]]

\* the pending list a merge leaves stored
MergedInfo(detected, currentInfo, taskKeys, taskTitleKeys) ==
  mergeDetectedTodos(detected, currentInfo, taskKeys, taskTitleKeys).info

(***************************************************************************)
(* todoCards: the indexes (1-based here) of one conversation's pending     *)
(* suggestions that are shown as cards                                     *)
(***************************************************************************)
\* todoCards with the title key looked up among the dismissed keys themselves
todoCardsTitleKeyNotDerived(info, taskList) ==
  {i \in 1..Len(info.todos) :
     LET todo     == info.todos[i]
         key      == buildTodoKeyFromTodo(todo)
         titleKey == buildTodoTitleKeyFromTodo(todo)
     IN /\ Trim(OrEmpty(todo.title)) # <<>>
        /\ ~(\/ key \in info.dismissedTodos
             \/ titleKey \in info.dismissedTodos
             \/ key \in existingTaskKeys(taskList)
             \/ titleKey \in existingTaskTitleKeys(taskList))}

todoCards(info, taskList) ==
  LET dismissed          == info.dismissedTodos
      dismissedTitleKeys == {extractTitleKeyFromTodoKey(k) : k \in info.dismissedTodos}
  IN {i \in 1..Len(info.todos) :
        LET todo     == info.todos[i]
            key      == buildTodoKeyFromTodo(todo)
            titleKey == buildTodoTitleKeyFromTodo(todo)
        IN /\ Trim(OrEmpty(todo.title)) # <<>>
           /\ ~(\/ key \in dismissed
                \/ titleKey \in dismissedTitleKeys
                \/ key \in existingTaskKeys(taskList)
                \/ titleKey \in existingTaskTitleKeys(taskList))}

(***************************************************************************)
(* Main process: the filter of ai:detectTodos                              *)
(***************************************************************************)
\* tasks whose trimmed title is empty contribute no key
buildExistingTaskKeySet(taskList) ==
  {buildTodoKey(Trim(OrEmpty(taskList[i].title)),
                normalizeTodoDueDate(taskList[i].deadline),
                normalizeTodoPriority(taskList[i].priority)) :
     i \in {j \in 1..Len(taskList) : Trim(OrEmpty(taskList[j].title)) # <<>>}}

buildExistingTaskTitleKeySet(taskList) ==
  {buildTodoTitleKey(Trim(OrEmpty(taskList[i].title))) :
     i \in {j \in 1..Len(taskList) : Trim(OrEmpty(taskList[j].title)) # <<>>}}

\* acc = [seen, seenTitles, next]
RECURSIVE DedupeLoop(_, _)
DedupeLoop(todos, acc) ==
  IF todos = <<>> THEN acc.next
  ELSE
    LET todo     == Head(todos)
        title    == Trim(OrEmpty(todo.title))
        dueDate  == normalizeTodoDueDate(todo.dueDate)
        priority == normalizeTodoPriority(todo.priority)
        key      == buildTodoKey(title, dueDate, priority)
        titleKey == buildTodoTitleKey(title)
    IN IF title = <<>> \/ key \in acc.seen \/ titleKey \in acc.seenTitles
       THEN DedupeLoop(Tail(todos), acc)
       ELSE DedupeLoop(Tail(todos),
              [seen       |-> acc.seen \cup {key},
               seenTitles |-> acc.seenTitles \cup {titleKey},
               next       |-> Append(acc.next,
                                [title    |-> title,
                                 dueDate  |-> OrUndefined(dueDate),
                                 priority |-> priority,
                                 notes    |-> OrUndefined(Trim(OrEmpty(todo.notes)))])])

dedupeExtractedTodos(todos, existingKeys, existingTitleKeys) ==
  DedupeLoop(todos, [seen |-> existingKeys, seenTitles |-> existingTitleKeys,
                     next |-> <<>>])

(***************************************************************************)
(* Inputs                                                                  *)
(***************************************************************************)
Todo(title, dueDate, priority, notes) ==
  [title |-> title, dueDate |-> dueDate, priority |-> priority, notes |-> notes]

\* suggestions as the extraction may return them
RawA     == Todo(<<" ", "a">>, Sentinel, undefined, undefined)
RawAVar  == Todo(<<"A">>, <<" ", "2024-06-01">>, <<"high">>, <<"n", " ">>)
RawB     == Todo(<<"b">>, <<>>, <<"medium">>, undefined)
RawBar   == Todo(<<"a", "|", "b">>, undefined, <<"medium">>, undefined)
RawBlank == Todo(<<" ">>, <<"2024-06-01">>, <<"bogus">>, undefined)

\* entries of the pending lists and of the incoming lists the merge is applied to
PendingTodos == {RawAVar, RawB, RawBar, RawBlank}
IncomingTodos == {RawA, RawAVar, RawB, RawBlank}

MaxPending == 2
MaxIncoming == 2

SeqsUpTo(S, n) == UNION {[1..k -> S] : k \in 0..n}

\* a task row of the tasks table, as mapTaskRow returns it
TaskRow(title, deadline, priority, isDeleted) ==
  [title |-> title, deadline |-> deadline, priority |-> priority,
   isDeleted |-> isDeleted]

(***************************************************************************)
(* State                                                                   *)
(***************************************************************************)
VARIABLES
  m,                  \* todoCards/mergeDetectedTodos applied to drawn inputs
  conversations,      \* conversation id -> its stored ExtractedInfo
  activeConversation, \* id of the conversation store's activeConversation
  tasks,              \* rows of the tasks table, oldest first
  todoEditTarget,     \* App state: [conversationId, index] or NoTarget
  todoEditDraft,      \* App state: the edit draft or NullTodo
  addOp,              \* a handleAddTodo call awaiting createTask
  sendOp,             \* a handleSendMessage call awaiting chat or extraction
  notice,             \* the notification or store error shown last
  dismissedTitles,    \* history: per conversation, titles dismissed by handleDeleteTodo
  promoted,           \* history: per conversation, suggestions promoted to tasks
  sends               \* history: the number of handleSendMessage calls so far

appVars == <<conversations, activeConversation, tasks, todoEditTarget, todoEditDraft,
             addOp, sendOp, notice, dismissedTitles, promoted, sends>>

vars == <<m, conversations, activeConversation, tasks, todoEditTarget, todoEditDraft,
          addOp, sendOp, notice, dismissedTitles, promoted, sends>>

ConvIds == {"c1"}

MaxTasks == 1
MaxDetected == 2
MaxSends == 2

NoTarget == [conversationId |-> "none", index |-> 0]
AddIdle == [busy |-> FALSE]
SendIdle == [phase |-> "idle"]

\* the application right after start: conversations exist and hold no suggestions
InitApp ==
  /\ conversations = [c \in ConvIds |-> EmptyInfo]
  /\ activeConversation = "c1"
  /\ tasks = <<>>
  /\ todoEditTarget = NoTarget
  /\ todoEditDraft = NullTodo
  /\ addOp = AddIdle
  /\ sendOp = SendIdle
  /\ notice = "none"
  /\ dismissedTitles = [c \in ConvIds |-> {}]
  /\ promoted = [c \in ConvIds |-> {}]
  /\ sends = 0

\* dismissal sets and task lists the merge is applied to
MergeDismissals ==
  SUBSET {buildTodoKeyFromTodo(RawA), buildTodoTitleKeyFromTodo(RawBar)}

MergeTaskLists ==
  {<<>>,
   <<TaskRow(<<"A">>, undefined, <<"low">>, FALSE)>>,
   <<TaskRow(<<"a", "|", "b">>, undefined, <<"medium">>, FALSE)>>}

MergeIdle == [stage |-> "idle"]

InitMerge ==
  /\ InitApp
  /\ \E pending \in SeqsUpTo(PendingTodos, MaxPending),
        incoming \in SeqsUpTo(IncomingTodos, MaxIncoming),
        dismissed \in MergeDismissals,
        taskList \in MergeTaskLists :
        m = [stage |-> "input",
           cur   |-> [todos |-> pending, dismissedTodos |-> dismissed],
           det   |-> [ok |-> TRUE, todos |-> incoming, dismissedTodos |-> {}],
           tasks |-> taskList,
           cards |-> {},
           out   |-> [write |-> FALSE, info |-> EmptyInfo],
           again |-> EmptyInfo]

\* render the cards of the drawn conversation
RenderTodoCards ==
  /\ m.stage = "input"
  /\ m' = [m EXCEPT !.stage = "rendered", !.cards = todoCards(m.cur, m.tasks)]
  /\ UNCHANGED appVars

\* apply mergeDetectedTodos to the drawn inputs
ApplyMerge ==
  /\ m.stage = "rendered"
  /\ m' = [m EXCEPT !.stage = "merged",
                    !.out = mergeDetectedTodos(m.det, m.cur,
                                               existingTaskKeys(m.tasks),
                                               existingTaskTitleKeys(m.tasks))]
  /\ UNCHANGED appVars

\* apply it again to its own result with an empty incoming list
ApplyMergeAgain ==
  /\ m.stage = "merged"
  /\ m' = [m EXCEPT !.stage = "again",
                    !.again = MergedInfo([ok |-> TRUE, todos |-> <<>>,
                                          dismissedTodos |-> m.det.dismissedTodos],
                                         m.out.info,
                                         existingTaskKeys(m.tasks),
                                         existingTaskTitleKeys(m.tasks))]
  /\ UNCHANGED appVars

NextMerge == RenderTodoCards \/ ApplyMerge \/ ApplyMergeAgain

SpecMerge == InitMerge /\ [][NextMerge]_vars

(***************************************************************************)
(* The application: stores and handlers                                    *)
(*                                                                         *)
(* The conversation store and the conversations table hold the same        *)
(* ExtractedInfo (every write goes through updateConversationExtractedInfo,*)
(* which writes the row and upserts the returned conversation); the task   *)
(* store holds the rows of the tasks table that are not deleted.           *)
(* A handler is one action, except where it awaits between what it reads   *)
(* and what it writes: handleAddTodo awaits createTask, handleSendMessage  *)
(* awaits the chat and the extraction.                                     *)
(***************************************************************************)
RemoveAt(s, i) == [j \in 1..(Len(s) - 1) |-> IF j < i THEN s[j] ELSE s[j + 1]]

IsLive(t) == ~t.isDeleted

\* listTasks / the task store's tasks
listTasks(rows) == SelectSeq(rows, IsLive)

\* normalizeDueDate of the database service: null for no date
normalizeDueDate(value) ==
  IF value = undefined \/ value = <<>> THEN undefined
  ELSE LET trimmed == Trim(value)
       IN IF trimmed = <<>> \/ trimmed = Sentinel THEN undefined ELSE trimmed

\* the row createTask inserts for a TaskCreateInput [title, priority, deadline]
createTask(input) ==
  TaskRow(input.title,
          normalizeDueDate(input.deadline),
          IF input.priority = undefined THEN <<"medium">> ELSE input.priority,
          FALSE)

\* store.updateConversationExtractedInfo on a conversation that exists
updateConversationExtractedInfo(convs, id, extractedInfo) ==
  [convs EXCEPT ![id] = extractedInfo]

\* the cards of conversation c in the current render
Cards(c) == todoCards(normalizeExtractedInfo(conversations[c]), listTasks(tasks))

\* handleStartTodoEdit's draft for a card
DraftOf(todo) ==
  [title    |-> OrEmpty(todo.title),
   priority |-> normalizeTodoPriority(todo.priority),
   dueDate  |-> normalizeTodoDueDate(todo.dueDate),
   notes    |-> OrEmpty(todo.notes)]

\* what the user may type into the draft's title
DraftTitles == {<<"b", " ">>}

\* titles typed into the new-task form
NewTaskTitles == {<<"a">>}

\* a button of card (c, i) shows its loading state while todoActionKey names the card
CardBusy(c, i) == addOp.busy /\ addOp.conversationId = c /\ addOp.index = i

handleStartTodoEdit(c, i) ==
  /\ i \in Cards(c)
  /\ todoEditTarget' = [conversationId |-> c, index |-> i]
  /\ todoEditDraft' = DraftOf(conversations[c].todos[i])
  /\ UNCHANGED <<m, conversations, activeConversation, tasks, addOp, sendOp, notice,
                 dismissedTitles, promoted, sends>>

\* setTodoEditDraft from the card's title input
EditDraftTitle(title) ==
  /\ todoEditTarget # NoTarget
  /\ todoEditDraft # NullTodo
  /\ todoEditDraft.title # title
  /\ todoEditDraft' = [todoEditDraft EXCEPT !.title = title]
  /\ UNCHANGED <<m, conversations, activeConversation, tasks, todoEditTarget, addOp,
                 sendOp, notice, dismissedTitles, promoted, sends>>

handleCancelTodoEdit ==
  /\ todoEditTarget # NoTarget
  /\ todoEditTarget' = NoTarget
  /\ todoEditDraft' = NullTodo
  /\ UNCHANGED <<m, conversations, activeConversation, tasks, addOp, sendOp, notice,
                 dismissedTitles, promoted, sends>>

\* the suggestion handleSaveTodoEdit stores for a draft
UpdatedTodo(draft) ==
  [title    |-> Trim(draft.title),
   priority |-> normalizeTodoPriority(draft.priority),
   dueDate  |-> OrUndefined(normalizeTodoDueDate(draft.dueDate)),
   notes    |-> OrUndefined(Trim(draft.notes))]

\* the Save button exists on the edited card only, and is disabled for a blank title
handleSaveTodoEdit ==
  /\ todoEditTarget # NoTarget
  /\ todoEditDraft # NullTodo
  /\ LET c == todoEditTarget.conversationId
         i == todoEditTarget.index
         currentInfo == normalizeExtractedInfo(conversations[c])
     IN /\ i \in Cards(c)
        /\ ~CardBusy(c, i)
        /\ Trim(todoEditDraft.title) # <<>>
        /\ conversations' =
             updateConversationExtractedInfo(conversations, c,
               [currentInfo EXCEPT !.todos[i] = UpdatedTodo(todoEditDraft)])
  /\ todoEditTarget' = NoTarget
  /\ todoEditDraft' = NullTodo
  /\ UNCHANGED <<m, activeConversation, tasks, addOp, sendOp, notice, dismissedTitles,
                 promoted, sends>>

\* the keys a handler adds to dismissedTodos for a key and a title key
NonBlankKeys(key, titleKey) ==
  (IF Trim(key) # <<>> THEN {key} ELSE {}) \cup
  (IF Trim(titleKey) # <<>> THEN {titleKey} ELSE {})

\* DeleteTodoInfo that records the full key only
DeleteTodoInfoFullKeyOnly(currentInfo, i) ==
  [todos          |-> RemoveAt(currentInfo.todos, i),
   dismissedTodos |-> currentInfo.dismissedTodos \cup
                      {buildTodoKeyFromTodo(currentInfo.todos[i])}]

\* the ExtractedInfo handleDeleteTodo writes for the card at index i
DeleteTodoInfo(currentInfo, i) ==
  [todos          |-> RemoveAt(currentInfo.todos, i),
   dismissedTodos |-> currentInfo.dismissedTodos \cup
                      NonBlankKeys(buildTodoKeyFromTodo(currentInfo.todos[i]),
                                   buildTodoTitleKeyFromTodo(currentInfo.todos[i]))]

handleDeleteTodo(c, i) ==
  /\ i \in Cards(c)
  /\ ~CardBusy(c, i)
  /\ LET currentInfo == normalizeExtractedInfo(conversations[c])
     IN /\ conversations' =
             updateConversationExtractedInfo(conversations, c,
                                             DeleteTodoInfo(currentInfo, i))
        /\ dismissedTitles' =
             [dismissedTitles EXCEPT ![c] = @ \cup {Trim(OrEmpty(currentInfo.todos[i].title))}]
  /\ IF todoEditTarget.conversationId = c /\ todoEditTarget.index >= i
     THEN todoEditTarget' = NoTarget /\ todoEditDraft' = NullTodo
     ELSE UNCHANGED <<todoEditTarget, todoEditDraft>>
  /\ UNCHANGED <<m, activeConversation, tasks, addOp, sendOp, notice, promoted, sends>>

\* handleAddTodo up to its await: what it read and what it will promote
AddTodoCall(c, i) ==
  LET currentInfo == normalizeExtractedInfo(conversations[c])
      isEditing   == todoEditTarget.conversationId = c /\ todoEditTarget.index = i
      draft       == IF isEditing THEN todoEditDraft ELSE NullTodo
  IN [busy           |-> TRUE,
      conversationId |-> c,
      index          |-> i,
      currentInfo    |-> currentInfo,
      sourceTodo     |-> IF draft # NullTodo THEN draft ELSE currentInfo.todos[i],
      cancelEdit     |-> todoEditTarget.conversationId = c /\ todoEditTarget.index >= i]

\* the TaskCreateInput handleAddTodo passes to createTask
AddTodoInput(op) ==
  [title    |-> Trim(OrEmpty(op.sourceTodo.title)),
   priority |-> normalizeTodoPriority(op.sourceTodo.priority),
   deadline |-> OrUndefined(normalizeTodoDueDate(op.sourceTodo.dueDate))]

\* the ExtractedInfo handleAddTodo writes once the task is created
AddTodoInfo(op) ==
  LET title == Trim(OrEmpty(op.sourceTodo.title))
  IN [todos          |-> RemoveAt(op.currentInfo.todos, op.index),
      dismissedTodos |-> op.currentInfo.dismissedTodos \cup
                         NonBlankKeys(buildTodoKey(title,
                                        normalizeTodoDueDate(op.sourceTodo.dueDate),
                                        normalizeTodoPriority(op.sourceTodo.priority)),
                                      buildTodoTitleKey(title))]

\* AddTodoOutcome that records the dismissal whether or not the task was created
AddTodoOutcomeRecordsAnyway(op, created) ==
  [write |-> TRUE, info |-> AddTodoInfo(op),
   notice |-> IF created THEN "todo-added" ELSE "todo-add-failed",
   cancelEdit |-> op.cancelEdit]

\* handleAddTodo after its await: created says whether createTask returned a task
AddTodoOutcome(op, created) ==
  IF created
  THEN [write |-> TRUE, info |-> AddTodoInfo(op), notice |-> "todo-added",
        cancelEdit |-> op.cancelEdit]
  ELSE [write |-> FALSE, info |-> op.currentInfo, notice |-> "todo-add-failed",
        cancelEdit |-> FALSE]

\* the Add button of every card is in its loading state while a task is being saved
handleAddTodo(c, i) ==
  /\ ~addOp.busy
  /\ i \in Cards(c)
  /\ Len(tasks) < MaxTasks
  /\ LET op == AddTodoCall(c, i)
     IN /\ Trim(OrEmpty(op.sourceTodo.title)) # <<>>
        /\ addOp' = op
  /\ UNCHANGED <<m, conversations, activeConversation, tasks, todoEditTarget,
                 todoEditDraft, sendOp, notice, dismissedTitles, promoted, sends>>

\* createTask returned: the task row exists, or the call failed and nothing was inserted
AddTodoResume(created) ==
  /\ addOp.busy
  /\ LET out == AddTodoOutcome(addOp, created)
         c   == addOp.conversationId
     IN /\ tasks' = IF created THEN Append(tasks, createTask(AddTodoInput(addOp)))
                    ELSE tasks
        /\ conversations' =
             IF out.write THEN updateConversationExtractedInfo(conversations, c, out.info)
             ELSE conversations
        /\ notice' = out.notice
        /\ IF out.cancelEdit
           THEN todoEditTarget' = NoTarget /\ todoEditDraft' = NullTodo
           ELSE UNCHANGED <<todoEditTarget, todoEditDraft>>
        /\ promoted' =
             IF created
             THEN [promoted EXCEPT ![c] =
                     @ \cup {buildTodoKeyFromTodo(addOp.currentInfo.todos[addOp.index])}]
             ELSE promoted
  /\ addOp' = AddIdle
  /\ UNCHANGED <<m, activeConversation, sendOp, dismissedTitles, sends>>

\* handleCreateTask from the task page (medium priority, no deadline)
handleCreateTask(title) ==
  /\ ~addOp.busy
  /\ Len(tasks) < MaxTasks
  /\ Trim(title) # <<>>
  /\ tasks' = Append(tasks,
                createTask([title |-> Trim(title), priority |-> <<"medium">>,
                            deadline |-> undefined]))
  /\ UNCHANGED <<m, conversations, activeConversation, todoEditTarget, todoEditDraft,
                 addOp, sendOp, notice, dismissedTitles, promoted, sends>>

\* deleteTask: the row is kept and marked deleted; a task row's delete button is
\* loading while a task is being saved
deleteTask(k) ==
  /\ ~addOp.busy
  /\ k \in 1..Len(tasks)
  /\ ~tasks[k].isDeleted
  /\ tasks' = [tasks EXCEPT ![k].isDeleted = TRUE]
  /\ UNCHANGED <<m, conversations, activeConversation, todoEditTarget, todoEditDraft,
                 addOp, sendOp, notice, dismissedTitles, promoted, sends>>

(***************************************************************************)
(* handleSendMessage: sendMessage, detectTodos, mergeDetectedTodos         *)
(***************************************************************************)
\* lists the extraction may return
AiTodos == {RawAVar, RawB}
AiLists == SeqsUpTo(AiTodos, MaxDetected)

\* the call starts: the running handler keeps the mergeDetectedTodos of this render,
\* and with it this render's existingTaskKeys and existingTaskTitleKeys
handleSendMessage ==
  /\ sendOp.phase = "idle"
  /\ sends < MaxSends
  /\ sends' = sends + 1
  /\ sendOp' = [phase          |-> "chat",
                conversationId |-> activeConversation,
                taskKeys       |-> existingTaskKeys(listTasks(tasks)),
                taskTitleKeys  |-> existingTaskTitleKeys(listTasks(tasks))]
  /\ UNCHANGED <<m, conversations, activeConversation, tasks, todoEditTarget,
                 todoEditDraft, addOp, notice, dismissedTitles, promoted>>

\* sendMessage returns (a persisted reply makes its conversation the active one) and
\* detectTodos asks ai:detectTodos for the active conversation; the main process reads
\* the tasks and the conversation's dismissals before it awaits the extraction
SendMessageReturns(replied) ==
  /\ sendOp.phase = "chat"
  /\ activeConversation' = IF replied THEN sendOp.conversationId ELSE activeConversation
  /\ sendOp' = [phase          |-> "detect",
                taskKeys       |-> sendOp.taskKeys,
                taskTitleKeys  |-> sendOp.taskTitleKeys,
                mainKeys       |-> buildExistingTaskKeySet(listTasks(tasks)),
                mainTitleKeys  |-> buildExistingTaskTitleKeySet(listTasks(tasks)),
                dismissedTodos |-> conversations[activeConversation'].dismissedTodos]
  /\ UNCHANGED <<m, conversations, tasks, todoEditTarget, todoEditDraft, addOp, notice,
                 dismissedTitles, promoted, sends>>

\* the keys of the todos ai:detectTodos returns
ReturnedKeys(todos) == {buildTodoKeyFromTodo(todos[i]) : i \in 1..Len(todos)}
ReturnedTitleKeys(todos) == {buildTodoTitleKeyFromTodo(todos[i]) : i \in 1..Len(todos)}

\* the ExtractedInfo ai:detectTodos returns for the extraction's todos
DetectedInfo(op, aiTodos) ==
  [ok             |-> TRUE,
   todos          |-> dedupeExtractedTodos(aiTodos, op.mainKeys, op.mainTitleKeys),
   dismissedTodos |-> op.dismissedTodos]

NullDetected == [ok |-> FALSE, todos |-> <<>>, dismissedTodos |-> {}]

\* what the merge step of handleSendMessage stores for a detection result; shown is
\* the notification left on display (detectTodos sets the store's error when it fails)
MergeStep(detected, shown) ==
  /\ sendOp.phase = "detect"
  /\ LET currentInfo == normalizeExtractedInfo(conversations[activeConversation])
         out == mergeDetectedTodos(detected, currentInfo,
                                   sendOp.taskKeys, sendOp.taskTitleKeys)
     IN conversations' =
          IF out.write
          THEN updateConversationExtractedInfo(conversations, activeConversation, out.info)
          ELSE conversations
  /\ sendOp' = SendIdle
  /\ notice' = shown
  /\ UNCHANGED <<m, activeConversation, tasks, todoEditTarget, todoEditDraft, addOp,
                 dismissedTitles, promoted, sends>>

\* detectTodos returns the filtered extraction and mergeDetectedTodos runs
DetectTodosReturns(aiTodos) == MergeStep(DetectedInfo(sendOp, aiTodos), notice)

\* detectTodos caught an error and returned null
DetectTodosFails == MergeStep(NullDetected, "detect-failed")

Init ==
  /\ InitApp
  /\ m = MergeIdle

Next ==
  \/ \E c \in ConvIds : \E i \in 1..Len(conversations[c].todos) :
       \/ handleStartTodoEdit(c, i)
       \/ handleDeleteTodo(c, i)
       \/ handleAddTodo(c, i)
  \/ \E title \in DraftTitles : EditDraftTitle(title)
  \/ handleCancelTodoEdit
  \/ handleSaveTodoEdit
  \/ \E created \in BOOLEAN : AddTodoResume(created)
  \/ \E title \in NewTaskTitles : handleCreateTask(title)
  \/ \E k \in 1..Len(tasks) : deleteTask(k)
  \/ handleSendMessage
  \/ \E replied \in BOOLEAN : SendMessageReturns(replied)
  \/ \E aiTodos \in AiLists : DetectTodosReturns(aiTodos)
  \/ DetectTodosFails

Spec == Init /\ [][Next]_vars

(***************************************************************************)
(* Promotion, dismissal and edit of the cards of a stored pending list     *)
(* (SpecPromote): the handlers above, started from a conversation whose    *)
(* pending list a merge has written                                        *)
(***************************************************************************)
\* suggestions as mergeDetectedTodos stores them
StoredTodos == {normalizeTodoSuggestion(t) : t \in {RawAVar, RawB}}

InitPromote ==
  /\ m = MergeIdle
  /\ \E pending \in SeqsUpTo(StoredTodos, MaxPending) :
       conversations = [c \in ConvIds |-> [todos |-> pending, dismissedTodos |-> {}]]
  /\ activeConversation = "c1"
  /\ tasks = <<>>
  /\ todoEditTarget = NoTarget
  /\ todoEditDraft = NullTodo
  /\ addOp = AddIdle
  /\ sendOp = SendIdle
  /\ notice = "none"
  /\ dismissedTitles = [c \in ConvIds |-> {}]
  /\ promoted = [c \in ConvIds |-> {}]
  /\ sends = 0

NextPromote ==
  \/ \E c \in ConvIds : \E i \in 1..Len(conversations[c].todos) :
       \/ handleStartTodoEdit(c, i)
       \/ handleDeleteTodo(c, i)
       \/ handleAddTodo(c, i)
  \/ \E title \in DraftTitles : EditDraftTitle(title)
  \/ handleCancelTodoEdit
  \/ handleSaveTodoEdit
  \/ \E created \in BOOLEAN : AddTodoResume(created)

SpecPromote == InitPromote /\ [][NextPromote]_vars

(***************************************************************************)
(* handleSendMessage on a conversation with a stored pending list, with    *)
(* cards dismissed while the message is in flight (SpecSend)               *)
(***************************************************************************)
NextSend ==
  \/ handleSendMessage
  \/ \E replied \in BOOLEAN : SendMessageReturns(replied)
  \/ \E aiTodos \in AiLists : DetectTodosReturns(aiTodos)
  \/ DetectTodosFails
  \/ \E c \in ConvIds : \E i \in 1..Len(conversations[c].todos) : handleDeleteTodo(c, i)

SpecSend == InitPromote /\ [][NextSend]_vars

(***************************************************************************)
(* The conversation store over the conversations table (SpecConversation): *)
(* deleteConversation archives a row, updateConversationExtractedInfo may  *)
(* be aimed at any id, also one that was archived or never existed.        *)
(* m.rows is the table, m.conversations and m.active are the store.        *)
(***************************************************************************)
RowIds == {"c1", "c2", "c3"}
NoRow == [state |-> "absent", extractedInfo |-> EmptyInfo]
NotFound == "Conversation not found."

\* ACTIVE_CONVERSATION_FILTER
IsActiveRow(row) == row.state # "absent" /\ row.state # "archived"

\* the ExtractedInfo values an update may carry
UpdateInfos ==
  {EmptyInfo,
   [todos |-> <<normalizeTodoSuggestion(RawB)>>, dismissedTodos |-> {}],
   [todos |-> <<>>, dismissedTodos |-> {buildTodoTitleKeyFromTodo(RawB)}]}

\* getConversation: the record of an active row, or null
getConversation(rows, id) ==
  IF IsActiveRow(rows[id])
  THEN [found |-> TRUE, id |-> id, extractedInfo |-> rows[id].extractedInfo]
  ELSE [found |-> FALSE, id |-> id, extractedInfo |-> EmptyInfo]

\* the UPDATE without its filter on the row's state
UpdateAnyRow(rows, id, extractedInfo) ==
  IF rows[id].state # "absent"
  THEN [rows EXCEPT ![id].extractedInfo = extractedInfo]
  ELSE rows

\* database.updateConversationExtractedInfo: UPDATE ... WHERE id = ? AND active
UpdateActiveRow(rows, id, extractedInfo) ==
  IF IsActiveRow(rows[id])
  THEN [rows EXCEPT ![id].extractedInfo = extractedInfo]
  ELSE rows

archiveConversation(rows, id) ==
  IF IsActiveRow(rows[id]) THEN [rows EXCEPT ![id].state = "archived"] ELSE rows

upsertConversation(list, updated) ==
  IF \E k \in 1..Len(list) : list[k].id = updated.id
  THEN [k \in 1..Len(list) |-> IF list[k].id = updated.id THEN updated ELSE list[k]]
  ELSE <<updated>> \o list

StoreEntry(rows, id) == [id |-> id, extractedInfo |-> rows[id].extractedInfo]

InitConversation ==
  /\ InitApp
  /\ \E i1, i2 \in UpdateInfos :
       LET rows == [id \in RowIds |->
                     IF id = "c1" THEN [state |-> "active", extractedInfo |-> i1]
                     ELSE IF id = "c2" THEN [state |-> "active", extractedInfo |-> i2]
                     ELSE NoRow]
       IN m = [stage         |-> "conversation",
               rows          |-> rows,
               conversations |-> <<StoreEntry(rows, "c1"), StoreEntry(rows, "c2")>>,
               active        |-> "c1",
               error         |-> "none",
               last          |-> [op |-> "none", id |-> "none", result |-> "none"]]

\* the store's updateConversationExtractedInfo through conversation:updateExtractedInfo
StoreUpdateExtractedInfo(id, extractedInfo) ==
  /\ m.stage = "conversation"
  /\ LET rows    == UpdateActiveRow(m.rows, id, extractedInfo)
         updated == getConversation(rows, id)
     IN m' = IF ~updated.found
             THEN [m EXCEPT !.rows = rows,
                            !.error = NotFound,
                            !.last = [op |-> "update", id |-> id, result |-> "null"]]
             ELSE [m EXCEPT !.rows = rows,
                            !.conversations =
                               upsertConversation(m.conversations,
                                                  StoreEntry(rows, id)),
                            !.last = [op |-> "update", id |-> id, result |-> "updated"]]
  /\ UNCHANGED appVars

\* the store's deleteConversation through conversation:delete
StoreDeleteConversation(id) ==
  /\ m.stage = "conversation"
  /\ LET removed == IsActiveRow(m.rows[id])
         rows    == archiveConversation(m.rows, id)
         next    == SelectSeq(m.conversations, LAMBDA e : e.id # id)
     IN m' = IF ~removed
             THEN [m EXCEPT !.error = NotFound,
                            !.last = [op |-> "delete", id |-> id, result |-> "null"]]
             ELSE [m EXCEPT !.rows = rows,
                            !.conversations = next,
                            !.active = IF m.active = id
                                       THEN (IF next = <<>> THEN "none" ELSE next[1].id)
                                       ELSE m.active,
                            !.last = [op |-> "delete", id |-> id, result |-> "removed"]]
  /\ UNCHANGED appVars

NextConversation ==
  \/ \E id \in RowIds : \E info \in UpdateInfos : StoreUpdateExtractedInfo(id, info)
  \/ \E id \in RowIds : StoreDeleteConversation(id)

SpecConversation == InitConversation /\ [][NextConversation]_vars

(***************************************************************************)
(* The extraction pipeline as functions (SpecExtract): the payload parsed  *)
(* from the model's answer is normalised by the AI service, filtered by    *)
(* ai:detectTodos and merged by the renderer.                              *)
(***************************************************************************)
\* normalizeDueDate local to the AI service's normalizeExtractedInfo
extractionNormalizeDueDate(value) ==
  IF value = undefined \/ value = <<>> THEN undefined
  ELSE IF Trim(value) = <<>> \/ Trim(value) = Sentinel THEN undefined
  ELSE Trim(value)

\* the mapping step of the AI service's normalizeExtractedInfo
extractionMapTodo(todo) ==
  [title    |-> Trim(todo.title),
   dueDate  |-> extractionNormalizeDueDate(todo.dueDate),
   priority |-> todo.priority,
   notes    |-> IF todo.notes = undefined \/ todo.notes = <<>> THEN undefined
                ELSE Trim(todo.notes)]

RECURSIVE MapTodos(_)
MapTodos(todos) ==
  IF todos = <<>> THEN <<>>
  ELSE <<extractionMapTodo(Head(todos))>> \o MapTodos(Tail(todos))

HasStringTitle(todo) == todo.title # undefined
HasTitle(todo) == Len(todo.title) > 0

\* normalizeExtractedInfo of the AI service that keeps entries with an empty title
extractionTodosKeepingEmpty(payloadTodos) ==
  MapTodos(SelectSeq(payloadTodos, HasStringTitle))

\* todos of the AI service's normalizeExtractedInfo; a payload entry that is
\* null or whose title is not a string has title undefined here
extractionTodos(payloadTodos) ==
  SelectSeq(MapTodos(SelectSeq(payloadTodos, HasStringTitle)), HasTitle)

PayloadTodos ==
  {NullTodo,
   Todo(<<>>, <<"2024-06-01">>, <<"high">>, <<"n">>),
   Todo(<<" ">>, undefined, undefined, undefined),
   Todo(<<" ", "a">>, <<" ">> \o Sentinel, <<"bogus">>, <<" ">>),
   Todo(<<"b">>, <<"2024-06-01", " ">>, <<"high">>, <<"n", " ">>)}
MaxPayload == 3
ExtractPending == {RawBlank, RawB, RawA}
ExtractTaskLists ==
  {<<>>, <<TaskRow(<<"B">>, undefined, <<"low">>, FALSE)>>,
   <<TaskRow(<<" ">>, undefined, <<"medium">>, FALSE)>>}

InitExtract ==
  /\ InitApp
  /\ \E payload \in SeqsUpTo(PayloadTodos, MaxPayload),
        pending \in SeqsUpTo(ExtractPending, MaxPending),
        taskList \in ExtractTaskLists :
        m = [stage     |-> "payload",
             payload   |-> payload,
             cur       |-> [todos |-> pending, dismissedTodos |-> {}],
             tasks     |-> taskList,
             extracted |-> <<>>,
             filtered  |-> <<>>,
             out       |-> [write |-> FALSE, info |-> EmptyInfo]]

\* generateExtractedInfo returns the normalised payload
GenerateExtractedInfo ==
  /\ m.stage = "payload"
  /\ m' = [m EXCEPT !.stage = "extracted",
                    !.extracted = extractionTodos(m.payload)]
  /\ UNCHANGED appVars

\* ai:detectTodos filters the extraction against the tasks
FilterExtractedTodos ==
  /\ m.stage = "extracted"
  /\ m' = [m EXCEPT !.stage = "filtered",
                    !.filtered = dedupeExtractedTodos(m.extracted,
                                   buildExistingTaskKeySet(m.tasks),
                                   buildExistingTaskTitleKeySet(m.tasks))]
  /\ UNCHANGED appVars

\* the renderer merges what ai:detectTodos returned
MergeFiltered ==
  /\ m.stage = "filtered"
  /\ m' = [m EXCEPT !.stage = "merged",
                    !.out = mergeDetectedTodos(
                              [ok |-> TRUE, todos |-> m.filtered,
                               dismissedTodos |-> m.cur.dismissedTodos],
                              m.cur,
                              existingTaskKeys(m.tasks),
                              existingTaskTitleKeys(m.tasks))]
  /\ UNCHANGED appVars

NextExtract == GenerateExtractedInfo \/ FilterExtractedTodos \/ MergeFiltered

SpecExtract == InitExtract /\ [][NextExtract]_vars

(***************************************************************************)
(* The tasks table of the database service (SpecTasks): rows are kept in   *)
(* insertion order, a row's id is its position, and the clock stands for   *)
(* new Date().                                                             *)
(***************************************************************************)
MaxRows == 2
MaxOps == 4
TaskIds == 1..MaxRows
Absent == <<"absent">>

TableRow(id, input, now) ==
  [id          |-> id,
   title       |-> input.title,
   description |-> IF "description" \in DOMAIN input THEN input.description
                   ELSE undefined,
   priority    |-> IF input.priority = undefined THEN <<"medium">> ELSE input.priority,
   status      |-> "not_started",
   deadline    |-> normalizeDueDate(input.deadline),
   completedAt |-> 0,
   createdAt   |-> now,
   updatedAt   |-> now,
   isDeleted   |-> FALSE]

HasRow(rows, id) == id \in 1..Len(rows)
HasLiveRow(rows, id) == HasRow(rows, id) /\ ~rows[id].isDeleted

\* each operation returns the table it leaves and its return value
TableCreateTask(rows, input, now) ==
  [rows |-> Append(rows, TableRow(Len(rows) + 1, input, now)), result |-> "record"]

\* updateTask whose UPDATE has no is_deleted condition
TableUpdateAnyTask(rows, id, input, now) ==
  IF ~HasRow(rows, id) THEN [rows |-> rows, result |-> "null"]
  ELSE [rows |-> [rows EXCEPT
                    ![id].priority = IF input.priority = Absent THEN @ ELSE input.priority,
                    ![id].deadline = IF input.deadline = Absent THEN @ ELSE input.deadline,
                    ![id].updatedAt = now],
        result |-> "record"]

TableUpdateTask(rows, id, input, now) ==
  IF input.priority = Absent /\ input.deadline = Absent
  THEN [rows |-> rows,
        result |-> IF HasLiveRow(rows, id) THEN "record" ELSE "null"]
  ELSE IF ~HasLiveRow(rows, id) THEN [rows |-> rows, result |-> "null"]
  ELSE [rows |-> [rows EXCEPT
                    ![id].priority = IF input.priority = Absent THEN @ ELSE input.priority,
                    ![id].deadline = IF input.deadline = Absent THEN @ ELSE input.deadline,
                    ![id].updatedAt = now],
        result |-> "record"]

TableCompleteTask(rows, id, now) ==
  IF ~HasLiveRow(rows, id) THEN [rows |-> rows, result |-> "null"]
  ELSE [rows |-> [rows EXCEPT ![id].status = "completed",
                              ![id].completedAt = now,
                              ![id].updatedAt = now],
        result |-> "record"]

\* the UPDATE of deleteTask has no is_deleted condition
TableDeleteTask(rows, id, now) ==
  IF ~HasRow(rows, id) THEN [rows |-> rows, result |-> "false"]
  ELSE [rows |-> [rows EXCEPT ![id].isDeleted = TRUE, ![id].updatedAt = now],
        result |-> "true"]

CreateInputs ==
  {[title |-> <<"a">>, priority |-> undefined, deadline |-> Sentinel],
   [title |-> <<"b">>, priority |-> <<"high">>, deadline |-> <<"2024-06-01">>]}
UpdateInputs ==
  {[priority |-> Absent, deadline |-> Absent],
   [priority |-> <<"urgent">>, deadline |-> Absent],
   [priority |-> Absent, deadline |-> undefined],
   [priority |-> Absent, deadline |-> <<"2024-07-01">>]}

InitTasks ==
  /\ InitApp
  /\ m = [stage |-> "table", rows |-> <<>>, clock |-> 0,
          last |-> [op |-> "none", id |-> 0, result |-> "none"]]

TableStep(op, id, out) ==
  /\ m.stage = "table"
  /\ m.clock < MaxOps
  /\ m' = [m EXCEPT !.rows = out.rows, !.clock = m.clock + 1,
                    !.last = [op |-> op, id |-> id, result |-> out.result]]
  /\ UNCHANGED appVars

StoreCreateTask(input) ==
  /\ Len(m.rows) < MaxRows
  /\ TableStep("createTask", Len(m.rows) + 1,
               TableCreateTask(m.rows, input, m.clock + 1))

StoreUpdateTask(id, input) ==
  TableStep("updateTask", id, TableUpdateTask(m.rows, id, input, m.clock + 1))

StoreCompleteTask(id) ==
  TableStep("completeTask", id, TableCompleteTask(m.rows, id, m.clock + 1))

StoreDeleteTask(id) ==
  TableStep("deleteTask", id, TableDeleteTask(m.rows, id, m.clock + 1))

NextTasks ==
  \/ \E input \in CreateInputs : StoreCreateTask(input)
  \/ \E id \in TaskIds, input \in UpdateInputs : StoreUpdateTask(id, input)
  \/ \E id \in TaskIds : StoreCompleteTask(id)
  \/ \E id \in TaskIds : StoreDeleteTask(id)

SpecTasks == InitTasks /\ [][NextTasks]_vars

(***************************************************************************)
(* TaskRow's debounced auto-save (SpecTaskRow): one task row is mounted    *)
(* over one row of the tasks table.  An effect of the component runs again *)
(* when one of its dependencies changed: it clears its timer and sets a    *)
(* new one when the drafts differ from the task.                           *)
(***************************************************************************)
MaxEdits == 3
NoTimer == [set |-> FALSE]

\* the auto-save effect of priority and deadline
SaveEffect(task, priority, deadline) ==
  LET deadlineNormalized == OrUndefined(Trim(deadline))
  IN IF task.status = "completed" THEN NoTimer
     ELSE IF priority # task.priority \/ deadlineNormalized # task.deadline
     THEN [set |-> TRUE,
           input |-> [priority |-> priority, deadline |-> deadlineNormalized]]
     ELSE NoTimer

\* the auto-save effect of title and notes; its TaskUpdateInput has neither
\* priority nor deadline
TextEffect(task, titleDraft, descriptionDraft) ==
  LET nextTitle == Trim(titleDraft)
      nextNormalizedDescription == OrUndefined(Trim(descriptionDraft))
  IN IF task.status = "completed" \/ nextTitle = <<>> THEN NoTimer
     ELSE IF nextTitle # task.title \/ task.description # nextNormalizedDescription
     THEN [set |-> TRUE,
           input |-> [priority |-> Absent, deadline |-> Absent,
                      title |-> nextTitle,
                      description |-> nextNormalizedDescription]]
     ELSE NoTimer

\* the component after a render in which task and drafts have the given values:
\* the two reset effects copy the task into the drafts when the task's fields
\* changed, and each auto-save effect runs again when a dependency changed
Rendered(old, task, priority, deadline, titleDraft, descriptionDraft) ==
  LET resetSave == task.deadline # old.task.deadline \/ task.priority # old.task.priority
      resetText == task.title # old.task.title \/ task.description # old.task.description
      p == IF resetSave THEN task.priority ELSE priority
      d == IF resetSave THEN OrEmpty(task.deadline) ELSE deadline
      t == IF resetText THEN task.title ELSE titleDraft
      n == IF resetText THEN OrEmpty(task.description) ELSE descriptionDraft
      saveDeps == <<p, d, task.priority, task.deadline, task.status>>
                    # <<old.priority, old.deadline, old.task.priority,
                        old.task.deadline, old.task.status>>
      textDeps == <<t, n, task.title, task.description, task.status>>
                    # <<old.titleDraft, old.descriptionDraft, old.task.title,
                        old.task.description, old.task.status>>
  IN [old EXCEPT !.task = task, !.priority = p, !.deadline = d,
                 !.titleDraft = t, !.descriptionDraft = n,
                 !.saveTimer = IF saveDeps THEN SaveEffect(task, p, d) ELSE @,
                 !.textTimer = IF textDeps THEN TextEffect(task, t, n) ELSE @]

RowTask ==
  TableRow(1, [title |-> <<"a">>, priority |-> undefined, deadline |-> undefined], 0)
RowPriorities == {<<"high">>}
RowDeadlines == {<<"2024-07-01">>, <<" ">>}
RowTitles == {<<"b">>, <<" ">>}
RowDescriptions == {<<"n">>}

InitTaskRow ==
  /\ InitApp
  /\ m = [stage |-> "row", rows |-> <<RowTask>>, clock |-> 0, task |-> RowTask,
          mounted |-> TRUE,
          priority |-> RowTask.priority, deadline |-> OrEmpty(RowTask.deadline),
          titleDraft |-> RowTask.title,
          descriptionDraft |-> OrEmpty(RowTask.description),
          saveTimer |-> NoTimer, textTimer |-> NoTimer,
          replies |-> <<>>, edits |-> 0]

RowEdit(priority, deadline, titleDraft, descriptionDraft) ==
  /\ m.stage = "row"
  /\ m.mounted
  /\ m.task.status # "completed"
  /\ m.edits < MaxEdits
  /\ m' = [Rendered(m, m.task, priority, deadline, titleDraft, descriptionDraft)
             EXCEPT !.edits = m.edits + 1]
  /\ UNCHANGED appVars

EditPriority(value) ==
  /\ value # m.priority
  /\ RowEdit(value, m.deadline, m.titleDraft, m.descriptionDraft)
EditDeadline(value) ==
  /\ value # m.deadline
  /\ RowEdit(m.priority, value, m.titleDraft, m.descriptionDraft)
EditTitle(value) ==
  /\ value # m.titleDraft
  /\ RowEdit(m.priority, m.deadline, value, m.descriptionDraft)
EditDescription(value) ==
  /\ value # m.descriptionDraft
  /\ RowEdit(m.priority, m.deadline, m.titleDraft, value)

\* a timer fires: onUpdate is called and the main process runs updateTask
SendUpdate(input) ==
  LET out == TableUpdateTask(m.rows, 1, input, m.clock + 1)
  IN [m EXCEPT !.rows = out.rows, !.clock = m.clock + 1,
               !.replies = Append(m.replies,
                             IF out.result = "null" THEN <<>> ELSE <<out.rows[1]>>)]

SaveTimerFires ==
  /\ m.stage = "row"
  /\ m.saveTimer.set
  /\ m' = [SendUpdate(m.saveTimer.input) EXCEPT !.saveTimer = NoTimer]
  /\ UNCHANGED appVars

TextTimerFires ==
  /\ m.stage = "row"
  /\ m.textTimer.set
  /\ m' = [SendUpdate(m.textTimer.input) EXCEPT !.textTimer = NoTimer]
  /\ UNCHANGED appVars

\* the task store's updateTask resumes: the returned task replaces the store's
UpdateReturns ==
  /\ m.stage = "row"
  /\ m.replies # <<>>
  /\ LET reply == Head(m.replies)
         rest  == [m EXCEPT !.replies = Tail(m.replies)]
     IN m' = IF reply = <<>> THEN rest
             ELSE IF ~m.mounted THEN [rest EXCEPT !.task = reply[1]]
             ELSE Rendered(rest, reply[1], m.priority, m.deadline, m.titleDraft,
                           m.descriptionDraft)
  /\ UNCHANGED appVars

\* the row is unmounted: the cleanups of the effects clear the timers
UnmountRow ==
  /\ m.stage = "row"
  /\ m.mounted
  /\ m' = [m EXCEPT !.mounted = FALSE, !.saveTimer = NoTimer, !.textTimer = NoTimer]
  /\ UNCHANGED appVars

NextTaskRow ==
  \/ \E v \in RowPriorities : EditPriority(v)
  \/ \E v \in RowDeadlines : EditDeadline(v)
  \/ \E v \in RowTitles : EditTitle(v)
  \/ \E v \in RowDescriptions : EditDescription(v)
  \/ SaveTimerFires
  \/ TextTimerFires
  \/ UpdateReturns
  \/ UnmountRow

\* a timer that stays set fires, and an awaited update returns
SpecTaskRow ==
  /\ InitTaskRow
  /\ [][NextTaskRow]_vars
  /\ WF_vars(SaveTimerFires)
  /\ WF_vars(TextTimerFires)
  /\ WF_vars(UpdateReturns)

(***************************************************************************)
(* The normalisers and key builders as functions (SpecKeys): a suggestion  *)
(* is paired with another suggestion or with a task and their keys are     *)
(* computed.                                                               *)
(***************************************************************************)
KeyTitles == {undefined, <<" ">>, <<"a">>, <<" ", "a", " ">>, <<"A">>}
KeyDueDates ==
  {undefined, <<>>, <<" ">>, Sentinel, <<" ">> \o Sentinel \o <<" ">>,
   Sentinel \o <<"x">>, <<"2024-06-01">>, <<" ", "2024-06-01", " ">>,
   <<"2024", " ", "06">>}
KeyPriorities ==
  {undefined, <<>>, <<"bogus">>, <<"low">>, <<"medium">>, <<"high">>, <<"urgent">>}
KeyNotes == {undefined, <<"n">>}

KeyTodos ==
  {Todo(t, d, p, n) : t \in KeyTitles, d \in KeyDueDates, p \in KeyPriorities,
                      n \in KeyNotes}

\* what a suggestion is compared with
KeyOtherTodos ==
  {Todo(t, d, p, <<"n">>) :
     t \in {<<"a">>, <<" ">>},
     d \in {<<>>, Sentinel, <<"2024-06-01">>, <<"2024-06-01", " ">>},
     p \in {undefined, <<"medium">>, <<"urgent">>}}
KeyTasks ==
  {TaskRow(t, d, p, FALSE) :
     t \in {<<"a">>, <<" ", "a">>, <<" ">>},
     d \in {undefined, <<"2024-06-01">>},
     p \in {<<"medium">>, <<"urgent">>}}

InitKeys ==
  /\ InitApp
  /\ \E a \in KeyTodos :
       \/ \E b \in KeyOtherTodos :
            m = [stage |-> "pair", a |-> a, kind |-> "todo", other |-> b]
       \/ \E t \in KeyTasks :
            m = [stage |-> "pair", a |-> a, kind |-> "task", other |-> t]

\* compute the normalised fields and the keys of the pair
ComputeKeys ==
  /\ m.stage = "pair"
  /\ m' = [stage    |-> "keys",
           a        |-> m.a,
           kind     |-> m.kind,
           other    |-> m.other,
           dueDate  |-> normalizeTodoDueDate(m.a.dueDate),
           priority |-> normalizeTodoPriority(m.a.priority),
           key      |-> buildTodoKeyFromTodo(m.a),
           otherKey |-> IF m.kind = "todo" THEN buildTodoKeyFromTodo(m.other)
                        ELSE buildTodoKeyFromTask(m.other),
           mainKeys |-> IF m.kind = "todo" THEN {}
                        ELSE buildExistingTaskKeySet(<<m.other>>)]
  /\ UNCHANGED appVars

NextKeys == ComputeKeys

SpecKeys == InitKeys /\ [][NextKeys]_vars

(***************************************************************************)
(* handleDeleteTodo as a function of the stored ExtractedInfo and the      *)
(* index it is called with (SpecDismiss).  The handler itself only         *)
(* requires that the list has an entry at that index.                      *)
(***************************************************************************)
InitDismiss ==
  /\ InitApp
  /\ \E pending \in SeqsUpTo(PendingTodos, MaxPending),
        dismissed \in MergeDismissals :
        m = [stage |-> "stored",
             cur   |-> [todos |-> pending, dismissedTodos |-> dismissed],
             index |-> 0,
             out   |-> EmptyInfo]

ApplyDeleteTodo(i) ==
  /\ m.stage = "stored"
  /\ i \in 1..Len(m.cur.todos)
  /\ m' = [m EXCEPT !.stage = "dismissed",
                    !.index = i,
                    !.out   = DeleteTodoInfo(normalizeExtractedInfo(m.cur), i)]
  /\ UNCHANGED appVars

NextDismiss == \E i \in 1..MaxPending : ApplyDeleteTodo(i)

SpecDismiss == InitDismiss /\ [][NextDismiss]_vars

(***************************************************************************)
(* The network guard of the renderer (SpecGuard): the three global         *)
(* primitives hold either the browser's own function or a blocking stub;   *)
(* the module variables hold what was saved as the original, or null.      *)
(***************************************************************************)
BLOCK_MESSAGE == "Traditional mode does not allow network access."
MaxCalls == 3
Native == "native"
Stub == "stub"
Null == "null"

GuardInit ==
  [fetch |-> Native, xhrOpen |-> Native, WebSocket |-> Native,
   originalFetch |-> Null, originalXhrOpen |-> Null, originalWebSocket |-> Null,
   installed |-> FALSE, onBlocked |-> FALSE]

\* blockFetch that saves the current global on every call
blockFetchSavingAgain(g) ==
  [g EXCEPT !.originalFetch = g.fetch, !.fetch = Stub]

blockFetch(g) ==
  [g EXCEPT !.originalFetch = IF g.originalFetch = Null THEN g.fetch ELSE @,
            !.fetch = Stub]

blockXhr(g) ==
  [g EXCEPT !.originalXhrOpen = IF g.originalXhrOpen = Null THEN g.xhrOpen ELSE @,
            !.xhrOpen = Stub]

blockWebSocket(g) ==
  [g EXCEPT !.originalWebSocket = IF g.originalWebSocket = Null THEN g.WebSocket ELSE @,
            !.WebSocket = Stub]

restoreNetwork(g) ==
  [g EXCEPT !.fetch = IF g.originalFetch # Null THEN g.originalFetch ELSE @,
            !.xhrOpen = IF g.originalXhrOpen # Null THEN g.originalXhrOpen ELSE @,
            !.WebSocket = IF g.originalWebSocket # Null THEN g.originalWebSocket ELSE @]

installNetworkGuard(g, mode, hasHandler) ==
  LET h == [g EXCEPT !.onBlocked = hasHandler]
  IN IF mode = "traditional"
     THEN blockWebSocket(blockXhr(blockFetch([h EXCEPT !.installed = TRUE])))
     ELSE restoreNetwork(h)

\* the blocking stub that never notifies
CallPrimitiveSilently(g, primitive) ==
  IF primitive = Stub
  THEN [notified |-> FALSE, reached |-> FALSE, error |-> BLOCK_MESSAGE]
  ELSE [notified |-> FALSE, reached |-> TRUE, error |-> "none"]

\* what a call of a global primitive does: the stub notifies the handler, if
\* there is one, and fails; the browser's function lets the request out
CallPrimitive(g, primitive) ==
  IF primitive = Stub
  THEN [notified |-> g.onBlocked, reached |-> FALSE, error |-> BLOCK_MESSAGE]
  ELSE [notified |-> FALSE, reached |-> TRUE, error |-> "none"]

InitGuard ==
  /\ InitApp
  /\ m = [stage |-> "guard", g |-> GuardInit, mode |-> "none", calls |-> 0,
          notified |-> 0, reached |-> 0,
          last |-> [op |-> "none", error |-> "none"]]

\* the effect of App runs installNetworkGuard for the app mode
InstallGuard(mode, hasHandler) ==
  /\ m.stage = "guard"
  /\ m' = [m EXCEPT !.g = installNetworkGuard(m.g, mode, hasHandler),
                    !.mode = mode,
                    !.last = [op |-> "install", error |-> "none"]]
  /\ UNCHANGED appVars

GuardCall(op, primitive) ==
  /\ m.stage = "guard"
  /\ m.calls < MaxCalls
  /\ LET out == CallPrimitive(m.g, primitive)
     IN m' = [m EXCEPT !.calls = m.calls + 1,
                       !.notified = IF out.notified THEN m.notified + 1 ELSE @,
                       !.reached = IF out.reached THEN m.reached + 1 ELSE @,
                       !.last = [op |-> op, error |-> out.error]]
  /\ UNCHANGED appVars

CallFetch == GuardCall("fetch", m.g.fetch)
CallXhrOpen == GuardCall("xhrOpen", m.g.xhrOpen)
NewWebSocket == GuardCall("WebSocket", m.g.WebSocket)

NextGuard ==
  \/ \E mode \in {"traditional", "ai"}, hasHandler \in BOOLEAN :
       InstallGuard(mode, hasHandler)
  \/ CallFetch
  \/ CallXhrOpen
  \/ NewWebSocket

SpecGuard == InitGuard /\ [][NextGuard]_vars

(***************************************************************************)
(* The IPC handlers of the main process (SpecIpc): each handler is the     *)
(* AI-mode check it starts with, the tables it touches before its first    *)
(* await and the tables it touches after it.                               *)
(***************************************************************************)
MaxInvocations == 2
AI_MODE_REQUIRED == "AI mode is required."

\* getSettings().appMode for the stored app_mode row
getAppMode(row) == IF row = "ai" THEN "ai" ELSE "traditional"

Handler(checksMode, entry, tail, awaits) ==
  [checksMode |-> checksMode, entry |-> entry, tail |-> tail, awaits |-> awaits]

Handlers ==
  [c \in {"conversation:create", "conversation:appendMessage", "conversation:get",
          "conversation:list", "conversation:delete",
          "conversation:updateExtractedInfo"} |->
     Handler(TRUE, {"conversations"}, {}, FALSE)]
  @@ ("ai:chat" :> Handler(TRUE, {"conversations"}, {}, TRUE))
  @@ ("ai:generateDiary" :>
        Handler(TRUE, {"conversations"}, {"diaries", "conversations"}, TRUE))
  @@ ("ai:detectTodos" :> Handler(TRUE, {"conversations", "tasks"}, {}, TRUE))
  @@ ("weekly-report:generate" :>
        Handler(TRUE, {"diaries", "tasks"}, {"reports"}, TRUE))
  @@ ("diary:create" :> Handler(FALSE, {"diaries"}, {}, FALSE))
  @@ ("diary:list" :> Handler(FALSE, {"diaries"}, {}, FALSE))
  @@ ("task:create" :> Handler(FALSE, {"tasks"}, {}, FALSE))
  @@ ("task:list" :> Handler(FALSE, {"tasks"}, {}, FALSE))
  @@ ("backup:export" :> Handler(FALSE, {"backup"}, {}, TRUE))
  @@ ("backup:import" :> Handler(FALSE, {"backup"}, {}, TRUE))

Channels == DOMAIN Handlers

\* ensureAiMode that lets every call through
ensureAiModeDisabled(row) == "none"

\* ensureAiMode: the error it throws, or none
ensureAiMode(row) ==
  IF getAppMode(row) # "ai" THEN AI_MODE_REQUIRED ELSE "none"

InitIpc ==
  /\ InitApp
  /\ m = [stage |-> "ipc", appModeRow |-> Null, touched |-> {}, pending |-> {},
          invocations |-> 0,
          last |-> [channel |-> "none", error |-> "none", touched |-> {}]]

\* settings:set stores an app mode
SetAppMode(row) ==
  /\ m.stage = "ipc"
  /\ row # m.appModeRow
  /\ m' = [m EXCEPT !.appModeRow = row,
                    !.last = [channel |-> "settings:set", error |-> "none",
                              touched |-> {}]]
  /\ UNCHANGED appVars

\* the renderer invokes a channel: the handler runs up to its first await
Invoke(channel) ==
  /\ m.stage = "ipc"
  /\ m.invocations < MaxInvocations
  /\ channel \notin m.pending
  /\ LET h == Handlers[channel]
         error == IF h.checksMode THEN ensureAiMode(m.appModeRow) ELSE "none"
     IN m' = IF error # "none"
             THEN [m EXCEPT !.invocations = m.invocations + 1,
                            !.last = [channel |-> channel, error |-> error,
                                      touched |-> {}]]
             ELSE [m EXCEPT !.invocations = m.invocations + 1,
                            !.touched = m.touched \cup h.entry,
                            !.pending = IF h.awaits THEN m.pending \cup {channel}
                                        ELSE m.pending,
                            !.last = [channel |-> channel, error |-> "none",
                                      touched |-> h.entry]]
  /\ UNCHANGED appVars

\* an awaited service call of a handler returns and the handler finishes
HandlerResumes(channel) ==
  /\ m.stage = "ipc"
  /\ channel \in m.pending
  /\ m' = [m EXCEPT !.pending = m.pending \ {channel},
                    !.touched = m.touched \cup Handlers[channel].tail,
                    !.last = [channel |-> "resume", error |-> "none",
                              touched |-> Handlers[channel].tail]]
  /\ UNCHANGED appVars

NextIpc ==
  \/ \E row \in {"ai", "traditional"} : SetAppMode(row)
  \/ \E channel \in Channels : Invoke(channel)
  \/ \E channel \in Channels : HandlerResumes(channel)

SpecIpc == InitIpc /\ [][NextIpc]_vars

(***************************************************************************)
(* handleSendMessage among several conversations (SpecSwitch): the store's *)
(* activeConversation can change while the chat and the extraction are     *)
(* awaited.  The extraction of a conversation returns the todos its own    *)
(* messages hold.                                                          *)
(***************************************************************************)
SwitchIds == {"c1", "c2"}
DetectedFor == [c \in SwitchIds |-> IF c = "c1" THEN <<RawB>> ELSE <<RawAVar>>]
SwitchIdle == [phase |-> "idle"]

InitSwitch ==
  /\ InitApp
  /\ m = [stage |-> "switch", infos |-> [c \in SwitchIds |-> EmptyInfo],
          archived |-> {}, active |-> "c1", op |-> SwitchIdle, sent |-> 0]

\* handleSendMessage starts: sendMessage takes the active conversation
SwitchSendMessage ==
  /\ m.stage = "switch"
  /\ m.op.phase = "idle"
  /\ m.active # Null
  /\ m.sent < MaxSends
  /\ m' = [m EXCEPT !.op = [phase |-> "chat", conversationId |-> m.active],
                    !.sent = m.sent + 1]
  /\ UNCHANGED appVars

\* sendMessage returns: a persisted reply makes its conversation the active one;
\* detectTodos then asks for the todos of the conversation that is active
SwitchChatReturns(replied) ==
  /\ m.stage = "switch"
  /\ m.op.phase = "chat"
  /\ replied => m.op.conversationId \notin m.archived
  /\ LET active == IF replied THEN m.op.conversationId ELSE m.active
     IN m' = [m EXCEPT !.active = active,
                       !.op = IF active = Null THEN SwitchIdle
                              ELSE [phase |-> "detect", detectFor |-> active,
                                    dismissedTodos |-> m.infos[active].dismissedTodos]]
  /\ UNCHANGED appVars

\* detectTodos returns and mergeDetectedTodos writes into the conversation that
\* is active now
SwitchDetectReturns(found) ==
  /\ m.stage = "switch"
  /\ m.op.phase = "detect"
  /\ LET detected == [ok |-> TRUE,
                      todos |-> IF found
                                THEN dedupeExtractedTodos(DetectedFor[m.op.detectFor],
                                                          {}, {})
                                ELSE <<>>,
                      dismissedTodos |-> m.op.dismissedTodos]
         out == IF m.active = Null
                THEN [write |-> FALSE, info |-> EmptyInfo]
                ELSE mergeDetectedTodos(detected,
                                        normalizeExtractedInfo(m.infos[m.active]),
                                        {}, {})
     IN m' = [m EXCEPT !.op = SwitchIdle,
                       !.infos = IF out.write /\ m.active \notin m.archived
                                 THEN [m.infos EXCEPT ![m.active] = out.info]
                                 ELSE m.infos]
  /\ UNCHANGED appVars

\* selectConversation
SwitchSelect(id) ==
  /\ m.stage = "switch"
  /\ id \notin m.archived
  /\ id # m.active
  /\ m' = [m EXCEPT !.active = id]
  /\ UNCHANGED appVars

\* deleteConversation: the first remaining conversation becomes the active one
SwitchDelete(id) ==
  /\ m.stage = "switch"
  /\ id \notin m.archived
  /\ LET rest == (SwitchIds \ m.archived) \ {id}
     IN m' = [m EXCEPT !.archived = m.archived \cup {id},
                       !.active = IF m.active # id THEN m.active
                                  ELSE IF rest = {} THEN Null
                                  ELSE CHOOSE c \in rest : TRUE]
  /\ UNCHANGED appVars

\* a pending suggestion of the active conversation is dismissed
SwitchDismiss ==
  /\ m.stage = "switch"
  /\ m.active # Null
  /\ m.infos[m.active].todos # <<>>
  /\ m' = [m EXCEPT !.infos[m.active] = DeleteTodoInfo(m.infos[m.active], 1)]
  /\ UNCHANGED appVars

NextSwitch ==
  \/ SwitchSendMessage
  \/ \E replied \in BOOLEAN : SwitchChatReturns(replied)
  \/ \E found \in BOOLEAN : SwitchDetectReturns(found)
  \/ \E id \in SwitchIds : SwitchSelect(id)
  \/ \E id \in SwitchIds : SwitchDelete(id)
  \/ SwitchDismiss

SpecSwitch == InitSwitch /\ [][NextSwitch]_vars

(***************************************************************************)
(* One ai:chat call (SpecChat): the provider's stream yields deltas, the   *)
(* generator yields those with content, and the handler relays them.       *)
(***************************************************************************)
MaxChunks == 3
Deltas == {<<>>, <<"h">>, <<"i", "!">>}

ChunkEvent(chunk) == [channel |-> "ai:chat:chunk", chunk |-> chunk]
DoneEvent == [channel |-> "ai:chat:done", chunk |-> <<>>]

\* the loop body that keeps only the last chunk as the content
RelayChunkKeepingLast(call, chunk) ==
  [call EXCEPT !.fullContent = chunk,
               !.events = Append(call.events, ChunkEvent(chunk))]

\* the body of the handler's loop for one chunk the generator yields
RelayChunk(call, chunk) ==
  [call EXCEPT !.fullContent = call.fullContent \o chunk,
               !.events = Append(call.events, ChunkEvent(chunk))]

InitChat ==
  /\ InitApp
  /\ \E deltas \in SeqsUpTo(Deltas, MaxChunks) :
       m = [stage |-> "chat", deltas |-> deltas, next |-> 1,
            call |-> [fullContent |-> <<>>, events |-> <<>>],
            yielded |-> <<>>,
            result |-> [status |-> "pending", content |-> <<>>]]

ChatRunning == m.stage = "chat" /\ m.result.status = "pending"

\* the stream delivers its next delta; generateAssistantReplyStream yields it when
\* it has content, and the handler relays what is yielded
StreamDelivers ==
  /\ ChatRunning
  /\ m.next <= Len(m.deltas)
  /\ LET content == m.deltas[m.next]
     IN m' = IF content = <<>>
             THEN [m EXCEPT !.next = m.next + 1]
             ELSE [m EXCEPT !.next = m.next + 1,
                            !.call = RelayChunk(m.call, content),
                            !.yielded = Append(m.yielded, content)]
  /\ UNCHANGED appVars

\* the stream ends: the handler sends done and returns the content
StreamEnds ==
  /\ ChatRunning
  /\ m.next > Len(m.deltas)
  /\ m' = [m EXCEPT !.call.events = Append(m.call.events, DoneEvent),
                    !.result = [status |-> "returned",
                                content |-> m.call.fullContent]]
  /\ UNCHANGED appVars

\* the provider's stream throws: the handler's loop is left by the exception
StreamFails ==
  /\ ChatRunning
  /\ m' = [m EXCEPT !.result = [status |-> "failed", content |-> <<>>]]
  /\ UNCHANGED appVars

NextChat == StreamDelivers \/ StreamEnds \/ StreamFails

SpecChat == InitChat /\ [][NextChat]_vars

(***************************************************************************)
(* sendMessage of the conversation store (SpecSendMessage): each call is   *)
(* at one of its awaits; isSending and the ai:chat listeners are shared.   *)
(* The Enter key starts a call whatever isSending is.                      *)
(***************************************************************************)
MaxSenders == 2
Senders == 1..MaxSenders
NotStarted == [pc |-> "idle", exit |-> "none"]

\* the catch block without offChatListeners
CatchErrorKeepingListeners(listeners) == listeners

\* the catch block: offChatListeners removes every chunk and done listener
CatchError(listeners) == {}

InitSendMessage ==
  /\ InitApp
  /\ \E hasConversation \in BOOLEAN :
       m = [stage |-> "send", calls |-> [i \in Senders |-> NotStarted],
            hasConversation |-> hasConversation,
            isSending |-> FALSE, listeners |-> {}]

\* a call leaves through its finally block
Exits(i, path, listeners) ==
  m' = [m EXCEPT !.calls[i] = [pc |-> "done", exit |-> path],
                 !.isSending = FALSE,
                 !.listeners = listeners]

\* sendMessage is called with non-blank input
SendStarts(i) ==
  /\ m.stage = "send"
  /\ m.calls[i].pc = "idle"
  /\ \A j \in Senders : j < i => m.calls[j].pc # "idle"
  /\ m' = [m EXCEPT !.isSending = TRUE,
                    !.calls[i].pc = IF m.hasConversation THEN "appendUser"
                                    ELSE "create"]
  /\ UNCHANGED appVars

\* conversationService.create returns or throws
CreateReturns(i, ok) ==
  /\ m.stage = "send"
  /\ m.calls[i].pc = "create"
  /\ IF ok
     THEN m' = [m EXCEPT !.hasConversation = TRUE, !.calls[i].pc = "appendUser"]
     ELSE Exits(i, "create-failed", CatchError(m.listeners))
  /\ UNCHANGED appVars

\* appendMessage of the user's message returns the conversation, null or throws;
\* with the conversation the chunk listener is registered and ai:chat invoked
AppendUserReturns(i, outcome) ==
  /\ m.stage = "send"
  /\ m.calls[i].pc = "appendUser"
  /\ CASE outcome = "conversation" ->
            m' = [m EXCEPT !.calls[i].pc = "chat",
                           !.listeners = m.listeners \cup {i}]
       [] outcome = "null" -> Exits(i, "not-found", m.listeners)
       [] OTHER -> Exits(i, "append-failed", CatchError(m.listeners))
  /\ UNCHANGED appVars

\* aiService.chat returns the reply (offChatListeners follows) or throws
ChatReturns(i, ok) ==
  /\ m.stage = "send"
  /\ m.calls[i].pc = "chat"
  /\ IF ok
     THEN m' = [m EXCEPT !.calls[i].pc = "appendReply", !.listeners = {}]
     ELSE Exits(i, "chat-failed", CatchError(m.listeners))
  /\ UNCHANGED appVars

\* appendMessage of the assistant's message returns or throws
AppendReplyReturns(i, outcome) ==
  /\ m.stage = "send"
  /\ m.calls[i].pc = "appendReply"
  /\ CASE outcome = "conversation" -> Exits(i, "replied", m.listeners)
       [] outcome = "null" -> Exits(i, "reply-not-stored", m.listeners)
       [] OTHER -> Exits(i, "append-failed", CatchError(m.listeners))
  /\ UNCHANGED appVars

AppendOutcomes == {"conversation", "null", "throws"}

SenderStep(i) ==
  \/ \E ok \in BOOLEAN : CreateReturns(i, ok)
  \/ \E outcome \in AppendOutcomes : AppendUserReturns(i, outcome)
  \/ \E ok \in BOOLEAN : ChatReturns(i, ok)
  \/ \E outcome \in AppendOutcomes : AppendReplyReturns(i, outcome)

NextSendMessage ==
  \E i \in Senders : SendStarts(i) \/ SenderStep(i)

\* every awaited service call completes or fails
SpecSendMessage ==
  /\ InitSendMessage
  /\ [][NextSendMessage]_vars
  /\ \A i \in Senders : WF_vars(SenderStep(i))

(***************************************************************************)
(* Backup export and import (SpecBackup): a database is the value of its   *)
(* ai_api_key row in the settings table: a key, NULL, or no row.           *)
(***************************************************************************)
MaxBackupOps == 5
NoRowStored == "no-row"
ApiKeys == {"sk-1", "sk-2"}
KeyRows == ApiKeys \cup {Null, NoRowStored}

\* scrubApiKey that leaves the copy as it is
scrubApiKeySkipped(row) == row

\* UPDATE settings SET value = NULL WHERE key = 'ai_api_key'
scrubApiKey(row) == IF row = NoRowStored THEN NoRowStored ELSE Null

\* getSettings().aiApiKey
getAiApiKey(row) == IF row = NoRowStored THEN Null ELSE row

\* setSettings({ aiApiKey: value }): insert or update of the row
setAiApiKey(row, value) == value

\* the database exportDatabaseBackup packs for a live database
exportedDatabase(live) == scrubApiKey(live)

\* the live database after restoreFromArchive / restoreFromLegacyDatabase
restoredDatabase(fileDb) == setAiApiKey(scrubApiKey(fileDb), Null)

BackupFiles ==
  {[kind |-> kind, db |-> row] : kind \in {"archive", "legacy"}, row \in KeyRows}
    \cup {[kind |-> "invalid", db |-> NoRowStored]}

InitBackup ==
  /\ InitApp
  /\ m = [stage |-> "backup", live |-> Null, exported |-> {}, ops |-> 0,
          imports |-> 0,
          last |-> [op |-> "none", packed |-> NoRowStored, error |-> FALSE]]

BackupStep(op, live, exported, imports, packed, error) ==
  /\ m.stage = "backup"
  /\ m.ops < MaxBackupOps
  /\ m' = [m EXCEPT !.live = live, !.exported = exported, !.ops = m.ops + 1,
                    !.imports = imports,
                    !.last = [op |-> op, packed |-> packed, error |-> error]]
  /\ UNCHANGED appVars

\* settings:set stores an API key
StoreApiKey(key) ==
  /\ key # m.live
  /\ BackupStep("settings:set", setAiApiKey(m.live, key), m.exported, m.imports,
                NoRowStored, FALSE)

\* exportDatabaseBackup with a file chosen
ExportBackup ==
  /\ m.stage = "backup"
  /\ BackupStep("export", m.live, m.exported \cup {exportedDatabase(m.live)},
                m.imports, exportedDatabase(m.live), FALSE)

\* importDatabaseBackup with a file chosen: a file that is neither an archive nor
\* a database makes it throw before the live database is replaced
ImportBackup(file) ==
  /\ m.stage = "backup"
  /\ IF file.kind = "invalid"
     THEN BackupStep("import", m.live, m.exported, m.imports, NoRowStored, TRUE)
     ELSE BackupStep("import", restoredDatabase(file.db), m.exported, m.imports + 1,
                     NoRowStored, FALSE)

NextBackup ==
  \/ \E key \in ApiKeys : StoreApiKey(key)
  \/ ExportBackup
  \/ \E file \in BackupFiles : ImportBackup(file)

SpecBackup == InitBackup /\ [][NextBackup]_vars

(***************************************************************************)
(* The task statistics of the weekly report (SpecWeekly): the tasks table  *)
(* with the day as the clock; a week is a range of days.                   *)
(***************************************************************************)
MaxDays == 2
Days == 1..MaxDays

\* getWeeklyReportStats: taskStats for the rows of the tasks table
getWeeklyReportStats(rows, weekStart, weekEnd) ==
  LET totalTasks ==
        Cardinality({i \in 1..Len(rows) :
                       /\ ~rows[i].isDeleted
                       /\ rows[i].createdAt >= weekStart
                       /\ rows[i].createdAt <= weekEnd})
      completedTasks ==
        Cardinality({i \in 1..Len(rows) :
                       /\ ~rows[i].isDeleted
                       /\ rows[i].status = "completed"
                       /\ rows[i].completedAt # 0
                       /\ rows[i].completedAt >= weekStart
                       /\ rows[i].completedAt <= weekEnd})
  IN [total |-> totalTasks, completed |-> completedTasks,
      weekStart |-> weekStart, weekEnd |-> weekEnd]

InitWeekly ==
  /\ InitApp
  /\ m = [stage |-> "weekly", rows |-> <<>>, day |-> 1,
          stats |-> [total |-> 0, completed |-> 0, weekStart |-> 1, weekEnd |-> 1]]

\* a day ends
DayPasses ==
  /\ m.stage = "weekly"
  /\ m.day < MaxDays
  /\ m' = [m EXCEPT !.day = m.day + 1]
  /\ UNCHANGED appVars

WeeklyCreateTask(input) ==
  /\ m.stage = "weekly"
  /\ Len(m.rows) < MaxRows
  /\ m' = [m EXCEPT !.rows = TableCreateTask(m.rows, input, m.day).rows]
  /\ UNCHANGED appVars

WeeklyCompleteTask(id) ==
  /\ m.stage = "weekly"
  /\ HasLiveRow(m.rows, id)
  /\ m' = [m EXCEPT !.rows = TableCompleteTask(m.rows, id, m.day).rows]
  /\ UNCHANGED appVars

WeeklyDeleteTask(id) ==
  /\ m.stage = "weekly"
  /\ HasLiveRow(m.rows, id)
  /\ m' = [m EXCEPT !.rows = TableDeleteTask(m.rows, id, m.day).rows]
  /\ UNCHANGED appVars

\* weekly-report:stats for a week
WeeklyStats(weekStart, weekEnd) ==
  /\ m.stage = "weekly"
  /\ weekStart <= weekEnd
  /\ m' = [m EXCEPT !.stats = getWeeklyReportStats(m.rows, weekStart, weekEnd)]
  /\ UNCHANGED appVars

NextWeekly ==
  \/ DayPasses
  \/ \E input \in CreateInputs : WeeklyCreateTask(input)
  \/ \E id \in TaskIds : WeeklyCompleteTask(id)
  \/ \E id \in TaskIds : WeeklyDeleteTask(id)
  \/ \E weekStart, weekEnd \in Days : WeeklyStats(weekStart, weekEnd)

SpecWeekly == InitWeekly /\ [][NextWeekly]_vars

(***************************************************************************)
(* Claims about todoCards and mergeDetectedTodos as functions (SpecMerge)  *)
(***************************************************************************)
FullKeys(todos) == {buildTodoKeyFromTodo(todos[i]) : i \in 1..Len(todos)}
TitleKeys(todos) == {buildTodoTitleKeyFromTodo(todos[i]) : i \in 1..Len(todos)}

\* the title keys derived from recorded dismissals
DerivedTitleKeys(dismissed) == {extractTitleKeyFromTodoKey(k) : k \in dismissed}

\* C2: a pending suggestion is shown as a card exactly when its trimmed title is
\* non-empty, its full key is not dismissed, its title key is not derived from a
\* dismissed key, and neither key is the key of an existing task.
C2_CardIffEligible ==
  m.stage = "rendered" =>
    \A i \in 1..Len(m.cur.todos) :
      LET todo == m.cur.todos[i]
      IN (i \in m.cards) <=>
           /\ Trim(OrEmpty(todo.title)) # <<>>
           /\ buildTodoKeyFromTodo(todo) \notin m.cur.dismissedTodos
           /\ buildTodoTitleKeyFromTodo(todo) \notin DerivedTitleKeys(m.cur.dismissedTodos)
           /\ \A t \in Range(m.tasks) :
                /\ buildTodoKeyFromTodo(todo) # buildTodoKeyFromTask(t)
                /\ buildTodoTitleKeyFromTodo(todo) # buildTodoTitleKeyFromTask(t)

\* a rendered conversation with a shown card and a suggestion with a non-blank
\* title that is hidden although its full key is not dismissed
C2_Witness ==
  /\ m.stage = "rendered"
  /\ m.cards # {}
  /\ \E i \in 1..Len(m.cur.todos) :
       /\ i \notin m.cards
       /\ Trim(OrEmpty(m.cur.todos[i].title)) # <<>>
       /\ buildTodoKeyFromTodo(m.cur.todos[i]) \notin m.cur.dismissedTodos

NoSharedKeys(todos) ==
  \A i, j \in 1..Len(todos) :
    i # j => /\ buildTodoKeyFromTodo(todos[i]) # buildTodoKeyFromTodo(todos[j])
             /\ buildTodoTitleKeyFromTodo(todos[i]) # buildTodoTitleKeyFromTodo(todos[j])

NoTaskCollision(todos, taskList) ==
  \A i \in 1..Len(todos) : \A t \in Range(taskList) :
    /\ buildTodoKeyFromTodo(todos[i]) # buildTodoKeyFromTask(t)
    /\ buildTodoTitleKeyFromTodo(todos[i]) # buildTodoTitleKeyFromTask(t)

\* C3 as stated: the written pending list has no two entries sharing a full key or
\* a title key, and no entry whose full key or title key is a recorded dismissal
\* or the key of an existing task.
C3_Original ==
  (m.stage = "merged" /\ m.out.write) =>
    /\ NoSharedKeys(m.out.info.todos)
    /\ NoTaskCollision(m.out.info.todos, m.tasks)
    /\ FullKeys(m.out.info.todos) \cap m.out.info.dismissedTodos = {}
    /\ TitleKeys(m.out.info.todos) \cap m.out.info.dismissedTodos = {}

\* C3 amended: as C3, with a title key matched against the title keys derived from
\* the recorded dismissals (the text before the first "|", trimmed, lower-cased).
C3_MergeDeduplicated ==
  (m.stage = "merged" /\ m.out.write) =>
    /\ NoSharedKeys(m.out.info.todos)
    /\ NoTaskCollision(m.out.info.todos, m.tasks)
    /\ FullKeys(m.out.info.todos) \cap m.out.info.dismissedTodos = {}
    /\ TitleKeys(m.out.info.todos) \cap DerivedTitleKeys(m.out.info.dismissedTodos) = {}

\* a merge that wrote two entries after dropping a duplicate or a collision
C3_Witness ==
  /\ m.stage = "merged"
  /\ m.out.write
  /\ Len(m.out.info.todos) = 2
  /\ Len(m.cur.todos) + Len(m.det.todos) > 2
  /\ m.cur.dismissedTodos # {}
  /\ m.tasks # <<>>

\* C10: merging the result again with an empty incoming list leaves the pending
\* list as it is, entry for entry.
C10_MergeIdempotent ==
  m.stage = "again" => m.again.todos = m.out.info.todos

\* a merge that wrote two entries and was applied again
C10_Witness ==
  /\ m.stage = "again"
  /\ m.out.write
  /\ Len(m.out.info.todos) = 2
  /\ m.again.todos = m.out.info.todos

\* a is b with some of its entries left out, the others in b's order
RECURSIVE IsSubsequence(_, _)
IsSubsequence(a, b) ==
  IF a = <<>> THEN TRUE
  ELSE IF b = <<>> THEN FALSE
  ELSE IF Head(a) = Head(b) THEN IsSubsequence(Tail(a), Tail(b))
  ELSE IsSubsequence(a, Tail(b))

NormalizedList(todos) == [i \in 1..Len(todos) |-> normalizeTodoSuggestion(todos[i])]

\* C11: the list a merge writes is the surviving pending entries in their order
\* followed by the accepted incoming entries in their order; pending [b, a|b] merged
\* with incoming [b, a], no dismissals and no tasks, gives [b, a|b, a].
C11_PendingFirstInOrder ==
  (m.stage = "merged" /\ m.out.write) =>
    LET out == m.out.info.todos
    IN /\ \E k \in 0..Len(out) :
            /\ IsSubsequence(SubSeq(out, 1, k), NormalizedList(m.cur.todos))
            /\ IsSubsequence(SubSeq(out, k + 1, Len(out)), NormalizedList(m.det.todos))
            /\ \A i \in 1..Len(m.cur.todos) :
                 i \in todoCards(m.cur, m.tasks) =>
                   \E j \in 1..k : buildTodoTitleKeyFromTodo(out[j]) =
                                     buildTodoTitleKeyFromTodo(m.cur.todos[i])
       /\ (/\ m.cur.todos = <<RawB, RawBar>>
           /\ m.det.todos = <<RawB, RawA>>
           /\ m.cur.dismissedTodos = {}
           /\ m.tasks = <<>>)
          => out = NormalizedList(<<RawB, RawBar, RawA>>)

\* the merge of pending [b, a|b] with incoming [b, a] has written three entries
C11_Witness ==
  /\ m.stage = "merged"
  /\ m.out.write
  /\ m.cur.todos = <<RawB, RawBar>>
  /\ m.det.todos = <<RawB, RawA>>
  /\ m.cur.dismissedTodos = {}
  /\ m.tasks = <<>>
  /\ Len(m.out.info.todos) = 3

(***************************************************************************)
(* Claims about handleDeleteTodo as a function (SpecDismiss)               *)
(***************************************************************************)
DismissedTodo == m.cur.todos[m.index]
DismissedTitleBlank == Trim(OrEmpty(DismissedTodo.title)) = <<>>

AddTodoFailedStep == addOp.busy /\ ~addOp'.busy /\ tasks' = tasks
AddTodoCreatedStep == addOp.busy /\ ~addOp'.busy /\ tasks' # tasks

\* C1: the keys stored in a conversation's dismissedTodos only grow.
C1_DismissedOnlyGrows ==
  [][\A c \in ConvIds :
       conversations[c].dismissedTodos \subseteq conversations'[c].dismissedTodos]_vars

\* C4: once a suggestion with a non-blank title has been dismissed, a merge whose
\* incoming list holds it, or a variant with the same title, leaves no entry with
\* that title in the pending list.
C4_DismissedStaysOut ==
  [][\A aiTodos \in AiLists :
       DetectTodosReturns(aiTodos) =>
         LET incoming == DetectedInfo(sendOp, aiTodos).todos
             c        == activeConversation
         IN \A k \in 1..Len(incoming) :
              Trim(OrEmpty(incoming[k].title)) \in dismissedTitles[c] =>
                \A t \in Range(conversations'[c].todos) :
                  Trim(OrEmpty(t.title)) # Trim(OrEmpty(incoming[k].title))]_vars

\* C5: a promotion whose createTask fails leaves the conversation's todos and
\* dismissedTodos as they are, shows the failure notice, and leaves the card shown.
C5_FailedPromotionChangesNothing ==
  [][AddTodoFailedStep =>
       /\ conversations' = conversations
       /\ notice' = "todo-add-failed"
       /\ \A c \in ConvIds : \A i \in Cards(c) :
            (c = addOp.conversationId /\ i = addOp.index) =>
              i \in todoCards(normalizeExtractedInfo(conversations'[c]), listTasks(tasks'))]_vars

\* a failed promotion after which the card is still shown
C5_Witness ==
  /\ notice = "todo-add-failed"
  /\ ~addOp.busy
  /\ \E c \in ConvIds : Cards(c) # {}

\* C6: a successful promotion of the suggestion at index i stores the pending list
\* without that entry and dismissedTodos with the suggestion's full key and title key.
C6_PromotionRecordsSuggestion ==
  [][AddTodoCreatedStep =>
       LET c    == addOp.conversationId
           todo == addOp.currentInfo.todos[addOp.index]
       IN /\ conversations'[c].todos = RemoveAt(addOp.currentInfo.todos, addOp.index)
          /\ buildTodoKeyFromTodo(todo) \in conversations'[c].dismissedTodos
          /\ buildTodoTitleKeyFromTodo(todo) \in conversations'[c].dismissedTodos]_vars

\* C7: once a suggestion has been promoted to a task, a merge whose incoming list
\* holds it leaves it out of the pending list.
C7_PromotedStaysOut ==
  [][\A aiTodos \in AiLists :
       DetectTodosReturns(aiTodos) =>
         LET incoming == DetectedInfo(sendOp, aiTodos).todos
             c        == activeConversation
         IN \A k \in 1..Len(incoming) :
              buildTodoKeyFromTodo(incoming[k]) \in promoted[c] =>
                buildTodoKeyFromTodo(incoming[k]) \notin FullKeys(conversations'[c].todos)]_vars

\* C8: a suggestion whose title key is that of an existing task is not shown as a
\* card and is not in a pending list that a merge writes.
C8_TaskTitleExcludes ==
  [][/\ \A c \in ConvIds : \A i \in Cards(c) :
          buildTodoTitleKeyFromTodo(conversations[c].todos[i])
            \notin existingTaskTitleKeys(listTasks(tasks))
     /\ (sendOp.phase = "detect" /\ conversations' # conversations) =>
          TitleKeys(conversations'[activeConversation].todos)
            \cap existingTaskTitleKeys(listTasks(tasks)) = {}]_vars

\* C9: the ExtractedInfo a handler writes was computed from the ExtractedInfo that
\* is stored when it writes.
C9_WritesUseFreshRead ==
  [][(AddTodoCreatedStep /\ conversations' # conversations) =>
       addOp.currentInfo = normalizeExtractedInfo(conversations[addOp.conversationId])]_vars

\* C13: when the extraction fails and detectTodos yields null, the merge that follows
\* stores nothing: the conversation's todos and dismissedTodos stay as they are.
C13_FailedDetectionChangesNothing ==
  [][DetectTodosFails => conversations' = conversations]_vars

\* a failed detection on a conversation that has pending suggestions and dismissals
C13_Witness ==
  /\ notice = "detect-failed"
  /\ sendOp.phase = "idle"
  /\ conversations[activeConversation].todos # <<>>
  /\ conversations[activeConversation].dismissedTodos # {}

TitleOf(x) == Trim(OrEmpty(x.title))
DueDateOf(d) ==
  IF d = undefined \/ Trim(d) = <<>> \/ Trim(d) = Sentinel THEN <<>> ELSE Trim(d)
PriorityOf(p) ==
  IF p \in {<<"low">>, <<"medium">>, <<"high">>, <<"urgent">>} THEN p ELSE <<"medium">>
SameTriple ==
  /\ TitleOf(m.a) = TitleOf(m.other)
  /\ DueDateOf(m.a.dueDate) =
       DueDateOf(IF m.kind = "todo" THEN m.other.dueDate ELSE m.other.deadline)
  /\ PriorityOf(m.a.priority) = PriorityOf(m.other.priority)

\* C15: two suggestions with the same trimmed title, normalized due date and
\* normalized priority have the same full key, whatever their notes and spelling,
\* and a task with the same triple has the key of the suggestion.
C15_KeyDependsOnTriple ==
  (m.stage = "keys" /\ SameTriple) =>
    /\ m.key = m.otherKey
    /\ (m.kind = "task" /\ TitleOf(m.other) # <<>>) => m.mainKeys = {m.key}

\* two suggestions that differ in notes, in the spelling of the title and of the
\* missing due date, and in a missing priority against medium, with one key
C15_Witness ==
  /\ m.stage = "keys"
  /\ m.kind = "todo"
  /\ m.a.title # m.other.title
  /\ m.a.dueDate = undefined /\ m.other.dueDate = Sentinel
  /\ m.a.priority = <<"bogus">> /\ m.other.priority = <<"medium">>
  /\ m.a.notes # m.other.notes
  /\ m.key = m.otherKey

\* C16: normalizeTodoDueDate returns the empty string for a missing, empty or
\* whitespace-only input and for the sentinel with whitespace around it, and the
\* trimmed input otherwise.
C16_DueDateNormalized ==
  m.stage = "keys" =>
    LET v == m.a.dueDate
    IN IF v = undefined \/ v = <<>> THEN m.dueDate = <<>>
       ELSE IF \A k \in 1..Len(v) : v[k] = " " THEN m.dueDate = <<>>
       ELSE IF Trim(v) = Sentinel THEN m.dueDate = <<>>
       ELSE /\ m.dueDate = Trim(v)
            /\ m.dueDate # <<>>
            /\ Head(m.dueDate) # " " /\ m.dueDate[Len(m.dueDate)] # " "

\* the sentinel with whitespace around it was normalized
C16_Witness ==
  /\ m.stage = "keys"
  /\ m.a.dueDate = <<" ">> \o Sentinel \o <<" ">>
  /\ m.dueDate = <<>>

\* C17: normalizeTodoPriority returns its input when that is low, medium, high or
\* urgent, and medium for every other input, a missing one included.
C17_PriorityNormalized ==
  m.stage = "keys" =>
    LET v == m.a.priority
    IN IF v \in {<<"low">>, <<"medium">>, <<"high">>, <<"urgent">>}
       THEN m.priority = v
       ELSE m.priority = <<"medium">>

\* an invalid priority was normalized
C17_Witness ==
  /\ m.stage = "keys"
  /\ m.a.priority = <<"bogus">>
  /\ m.priority = <<"medium">>

(***************************************************************************)
(* Claims about the extraction pipeline (SpecExtract)                      *)
(***************************************************************************)
NoBlankTitle(todos) ==
  \A i \in 1..Len(todos) : Trim(OrEmpty(todos[i].title)) # <<>>
BlankTitled(todos) ==
  {i \in 1..Len(todos) : todos[i].title # undefined /\ Trim(todos[i].title) = <<>>}

\* C18: the todos returned by the extraction's normalisation, those returned by
\* dedupeExtractedTodos and those written by mergeDetectedTodos never contain an
\* entry whose trimmed title is empty.
C18_BlankTitlesDropped ==
  /\ NoBlankTitle(m.extracted)
  /\ NoBlankTitle(m.filtered)
  /\ m.out.write => NoBlankTitle(m.out.info.todos)

\* a payload with an entry without a title and a blank-titled one went through the
\* three stages next to a blank-titled pending entry, and something was written
C18_Witness ==
  /\ m.stage = "merged"
  /\ \E i \in 1..Len(m.payload) : m.payload[i].title = undefined
  /\ BlankTitled(m.payload) # {}
  /\ BlankTitled(m.cur.todos) # {}
  /\ m.out.write

(***************************************************************************)
(* Claims about the tasks table (SpecTasks)                                *)
(***************************************************************************)
ListedIds(rows) == {listTasks(rows)[k].id : k \in 1..Len(listTasks(rows))}

\* C19: no operation on the tasks table removes a row; a deleted task stays
\* deleted and is not returned by listTasks; updateTask and completeTask on a
\* deleted task return null and leave every row as it was.
C19_SoftDeleteOnly ==
  [][/\ Len(m'.rows) >= Len(m.rows)
     /\ \A i \in 1..Len(m.rows) :
          /\ m'.rows[i].id = m.rows[i].id
          /\ m'.rows[i].title = m.rows[i].title
          /\ m.rows[i].isDeleted => (m'.rows[i].isDeleted /\ i \notin ListedIds(m'.rows))
     /\ \A id \in TaskIds :
          (/\ HasRow(m.rows, id) /\ m.rows[id].isDeleted
           /\ m'.last.id = id
           /\ m'.last.op \in {"updateTask", "completeTask"})
          => (m'.last.result = "null" /\ m'.rows = m.rows)]_vars

\* completeTask was just refused on a deleted task while another task is listed
C19_Witness ==
  /\ m.stage = "table"
  /\ m.last.op = "completeTask" /\ m.last.result = "null"
  /\ HasRow(m.rows, m.last.id)
  /\ m.rows[m.last.id].isDeleted
  /\ m.rows[m.last.id].status = "not_started"
  /\ ListedIds(m.rows) # {}

(***************************************************************************)
(* Claims about TaskRow's auto-save (SpecTaskRow)                          *)
(***************************************************************************)
\* the tasks table holds what the mounted row shows
RowPersisted ==
  /\ m.rows[1].priority = m.priority
  /\ m.rows[1].deadline = OrUndefined(Trim(m.deadline))
  /\ Trim(m.titleDraft) # <<>> =>
       /\ m.rows[1].title = Trim(m.titleDraft)
       /\ m.rows[1].description = OrUndefined(Trim(m.descriptionDraft))

\* C20: once the user stops editing the priority, deadline, title or notes of a
\* task that is not completed, the edited values are eventually in the tasks table
\* for as long as the row stays mounted.
C20_EditsEventuallyPersisted ==
  <>[](m.mounted => RowPersisted)

(***************************************************************************)
(* Claims about the network guard (SpecGuard)                              *)
(***************************************************************************)
GuardCallStep == m'.calls = m.calls + 1

\* C21: while the guard is installed for traditional mode, every fetch, every
\* XMLHttpRequest.open and every WebSocket construction fails with the block
\* message, the registered handler is notified of it, and no request goes out.
C21_TraditionalBlocksEveryCall ==
  [][(GuardCallStep /\ m.mode = "traditional") =>
       /\ m'.last.error = BLOCK_MESSAGE
       /\ m'.reached = m.reached
       /\ m.g.onBlocked => m'.notified = m.notified + 1]_vars

\* the three primitives were called under the traditional guard with a handler
\* registered, after a request had gone out in ai mode
C21_Witness ==
  /\ m.stage = "guard"
  /\ m.mode = "traditional"
  /\ m.g.onBlocked
  /\ m.calls = 3 /\ m.notified = 2 /\ m.reached = 1
  /\ m.last.op = "WebSocket" /\ m.last.error = BLOCK_MESSAGE

\* C26: after any sequence of installNetworkGuard calls the three globals are the
\* blocking stubs exactly when the last call was for traditional mode, and what
\* is saved as an original is never a blocking stub.
C26_StubsIffTraditional ==
  m.stage = "guard" =>
    /\ \A p \in {m.g.fetch, m.g.xhrOpen, m.g.WebSocket} :
         p = Stub <=> m.mode = "traditional"
    /\ \A o \in {m.g.originalFetch, m.g.originalXhrOpen, m.g.originalWebSocket} :
         o # Stub

\* the guard was installed and lifted, and a request went out after the restore
C26_Witness ==
  /\ m.stage = "guard"
  /\ m.mode = "ai"
  /\ m.g.originalFetch = Native /\ m.g.fetch = Native
  /\ m.notified > 0
  /\ m.last.op = "fetch" /\ m.last.error = "none"

(***************************************************************************)
(* Claims about the IPC handlers (SpecIpc)                                 *)
(***************************************************************************)
AiChannels ==
  {"conversation:create", "conversation:appendMessage", "conversation:get",
   "conversation:list", "conversation:delete", "conversation:updateExtractedInfo",
   "ai:chat", "ai:generateDiary", "ai:detectTodos", "weekly-report:generate"}
InvokeStep == m'.invocations = m.invocations + 1

\* C22: while the stored app mode is not ai, an invocation of a conversation
\* handler, of an AI handler or of weekly-report:generate fails with "AI mode is
\* required." and touches no table, and an invocation of a diary, task or backup
\* handler does not fail with it.
C22_AiModeRequired ==
  [][(InvokeStep /\ m.appModeRow # "ai") =>
       IF m'.last.channel \in AiChannels
       THEN /\ m'.last.error = AI_MODE_REQUIRED
            /\ m'.touched = m.touched
            /\ m'.pending = m.pending
       ELSE /\ m'.last.error = "none"
            /\ m'.last.touched # {}]_vars

\* ai:detectTodos was refused in traditional mode after a call served in ai mode
C22_Witness ==
  /\ m.stage = "ipc"
  /\ m.appModeRow = "traditional"
  /\ m.touched # {}
  /\ m.last.channel = "ai:detectTodos"
  /\ m.last.error = AI_MODE_REQUIRED

(***************************************************************************)
(* Claims about ai:detectTodos in the application (Spec)                   *)
(***************************************************************************)
\* C23: when ai:detectTodos returns, its todos contain no entry with the full key
\* or the title key of a non-deleted task with a non-blank title and no two entries
\* with the same full key or title key, and its dismissedTodos are the stored
\* dismissals of the conversation.
C23_DetectedExcludesTasks ==
  [][\A aiTodos \in AiLists :
       DetectTodosReturns(aiTodos) =>
         LET detected == DetectedInfo(sendOp, aiTodos)
         IN /\ ReturnedKeys(detected.todos)
                 \cap buildExistingTaskKeySet(listTasks(tasks)) = {}
            /\ ReturnedTitleKeys(detected.todos)
                 \cap buildExistingTaskTitleKeySet(listTasks(tasks)) = {}
            /\ Cardinality(ReturnedTitleKeys(detected.todos)) = Len(detected.todos)
            /\ detected.dismissedTodos = conversations[activeConversation].dismissedTodos]_vars

(***************************************************************************)
(* Claims about handleSendMessage among several conversations (SpecSwitch) *)
(***************************************************************************)
OwnTodos(c) == {normalizeTodoSuggestion(DetectedFor[c][i]) : i \in 1..Len(DetectedFor[c])}
OwnKeys(c) ==
  UNION {{buildTodoKeyFromTodo(t), buildTodoTitleKeyFromTodo(t)} : t \in OwnTodos(c)}

\* C24: the pending list and the dismissals of a conversation only ever hold todos
\* detected from, and dismissals made in, that conversation.
C24_DetectedStayInConversation ==
  m.stage = "switch" =>
    \A c \in SwitchIds :
      /\ Range(m.infos[c].todos) \subseteq OwnTodos(c)
      /\ m.infos[c].dismissedTodos \subseteq OwnKeys(c)

(***************************************************************************)
(* Claims about the stored pending list under merge, edit, dismissal and   *)
(* promotion (Spec)                                                        *)
(***************************************************************************)
\* C25: in every stored state of a conversation no two pending todos share a title
\* key, and no pending todo has its full key or its title key among the
\* conversation's dismissedTodos.
C25_PendingDistinctNotDismissed ==
  \A c \in ConvIds :
    LET todos == conversations[c].todos
    IN /\ \A i, j \in 1..Len(todos) :
            i # j => buildTodoTitleKeyFromTodo(todos[i]) # buildTodoTitleKeyFromTodo(todos[j])
       /\ \A i \in 1..Len(todos) :
            /\ buildTodoKeyFromTodo(todos[i]) \notin conversations[c].dismissedTodos
            /\ buildTodoTitleKeyFromTodo(todos[i]) \notin conversations[c].dismissedTodos

(***************************************************************************)
(* Claims about one ai:chat call (SpecChat)                                *)
(***************************************************************************)
RECURSIVE ConcatChunks(_)
ConcatChunks(events) ==
  IF events = <<>> THEN <<>>
  ELSE (IF Head(events).channel = "ai:chat:chunk" THEN Head(events).chunk ELSE <<>>)
         \o ConcatChunks(Tail(events))
ChunkEvents(events) == SelectSeq(events, LAMBDA e : e.channel = "ai:chat:chunk")
DoneCount(events) == Len(events) - Len(ChunkEvents(events))

\* C27: every chunk event of an ai:chat call precedes its only done event, the
\* chunks are relayed in the order they were yielded, the returned content is the
\* concatenation of the relayed chunks, and a call whose stream failed sends no
\* done event.
C27_ChunksThenDone ==
  m.stage = "chat" =>
    LET events == m.call.events
    IN /\ DoneCount(events) <= 1
       /\ \A i \in 1..Len(events) :
            events[i].channel = "ai:chat:done" => i = Len(events)
       /\ [i \in 1..Len(ChunkEvents(events)) |-> ChunkEvents(events)[i].chunk] = m.yielded
       /\ DoneCount(events) = 1 <=> m.result.status = "returned"
       /\ m.result.status = "returned" => m.result.content = ConcatChunks(events)

\* a call returned after two chunks and a delta without content
C27_Witness ==
  /\ m.stage = "chat"
  /\ m.result.status = "returned"
  /\ Len(m.deltas) = 3
  /\ Len(m.yielded) = 2
  /\ m.yielded[1] # m.yielded[2]
  /\ m.result.content = m.yielded[1] \o m.yielded[2]

(***************************************************************************)
(* Claims about sendMessage (SpecSendMessage)                              *)
(***************************************************************************)
\* C28: every sendMessage call that has started eventually leaves, and at the
\* step in which it leaves isSending is false and no ai:chat listener the call
\* registered is installed.
C28_SendMessageTerminatesClean ==
  /\ \A i \in Senders : (m.calls[i].pc # "idle") ~> (m.calls[i].pc = "done")
  /\ [][\A i \in Senders :
          (m.calls[i].pc # "done" /\ m'.calls[i].pc = "done") =>
            (~m'.isSending /\ i \notin m'.listeners)]_vars

\* one call left because the chat failed while another call was still being
\* answered, and that one has persisted its reply
C28_Witness ==
  /\ m.stage = "send"
  /\ m.calls[1].exit = "chat-failed"
  /\ m.calls[2].exit = "replied"
  /\ ~m.isSending /\ m.listeners = {}

(***************************************************************************)
(* Claims about backup export and import (SpecBackup)                      *)
(***************************************************************************)
\* C29: the database packed by an export has no API key while the live database
\* keeps its own, and after an import that completed the stored aiApiKey is null
\* whatever key the file or the previous database held.
C29_NoApiKeyInBackup ==
  [][/\ m'.last.op = "export" =>
          (getAiApiKey(m'.last.packed) = Null /\ m'.live = m.live)
     /\ \A row \in m'.exported : row \notin ApiKeys
     /\ (m'.last.op = "import" /\ ~m'.last.error) => getAiApiKey(m'.live) = Null
     /\ (m'.last.op = "import" /\ m'.last.error) => m'.live = m.live]_vars

\* an export was packed from a live database that holds a key, after an import
C29_Witness ==
  /\ m.stage = "backup"
  /\ m.last.op = "export"
  /\ m.live \in ApiKeys
  /\ m.last.packed = Null
  /\ m.imports > 0

(***************************************************************************)
(* Claims about the weekly task statistics (SpecWeekly)                    *)
(***************************************************************************)
\* C30: for every week and every history of task creation, completion and
\* deletion, taskStats.completed is at most taskStats.total.
C30_CompletedAtMostTotal ==
  m.stage = "weekly" => m.stats.completed <= m.stats.total

====
